---- MODULE Spec2Model ----
(***************************************************************************)
(* A model of vtt_toolkit.py: the timestamp codec, the document splitter,  *)
(* the cue parser, the timeline fixer, the chunker (split), the            *)
(* chronological merger and the cue compressor, and the composite          *)
(* commands built from them.                                               *)
(*                                                                         *)
(* Text is modelled as it is in the program: a string is a sequence of     *)
(* one-character strings, a file is one such sequence, and the line        *)
(* splitting, regular-expression matching, parsing and formatting are      *)
(* computed character by character.  A Python exception is the record      *)
(* [ok |-> FALSE, err |-> <exception class>].                              *)
(***************************************************************************)
EXTENDS Integers, Sequences, FiniteSets, TLC

VARIABLES
    pc,        \* position of the modelled invocation
    ts_ms,     \* codec: the millisecond value handed to ms_to_vtt
    ts_text,   \* codec: the text produced by ms_to_vtt / handed to parse_ts_to_ms
    ts_back,   \* codec: the result of parse_ts_to_ms(ts_text)
    fs,        \* the files: path -> content, a path being [dir, name]
    dirs,      \* the directories that exist
    results    \* the outcome of every command run so far, in order

vars == <<pc, ts_ms, ts_text, ts_back, fs, dirs, results>>

codec_vars == <<ts_ms, ts_text, ts_back>>

file_vars == <<fs, dirs, results>>

----------------------------------------------------------------------------
(* Characters and strings                                                  *)

NL == "\n"
CR == "\r"
SP == " "
\* U+FEFF, the byte-order mark, as one character of the model
BOM == "BOM"

\* U+000C, the form feed
FF == "\f"

\* The characters str.strip() and the regex class \s treat as whitespace,
\* restricted to those of the model's alphabet.

IsSpace(c) == c \in {SP, NL, CR, "\t", FF}

DigitChars == <<"0", "1", "2", "3", "4", "5", "6", "7", "8", "9">>

IsDigit(c) == \E i \in 1..10 : DigitChars[i] = c

DigitVal(c) == (CHOOSE i \in 1..10 : DigitChars[i] = c) - 1

Max(a, b) == IF a >= b THEN a ELSE b

Min(a, b) == IF a <= b THEN a ELSE b

RECURSIVE Pow(_, _)
Pow(b, k) == IF k = 0 THEN 1 ELSE b * Pow(b, k - 1)

\* str.lstrip(), str.rstrip(), str.strip()
RECURSIVE LStrip(_)
LStrip(s) == IF s # <<>> /\ IsSpace(Head(s)) THEN LStrip(Tail(s)) ELSE s

RECURSIVE RStrip(_)
RStrip(s) ==
    IF s # <<>> /\ IsSpace(s[Len(s)]) THEN RStrip(SubSeq(s, 1, Len(s) - 1)) ELSE s

Strip(s) == RStrip(LStrip(s))

\* str.replace(a, b) for single characters a, b
ReplaceChar(s, a, b) == [i \in 1..Len(s) |-> IF s[i] = a THEN b ELSE s[i]]

\* str.split(sep) for a single character sep: always at least one part
RECURSIVE SplitOn(_, _)
SplitOn(s, sep) ==
    IF \A i \in 1..Len(s) : s[i] # sep
    THEN <<s>>
    ELSE LET k == CHOOSE i \in 1..Len(s) :
                      s[i] = sep /\ \A j \in 1..(i - 1) : s[j] # sep
         IN  <<SubSeq(s, 1, k - 1)>> \o SplitOn(SubSeq(s, k + 1, Len(s)), sep)

\* "".join(parts)
RECURSIVE Concat(_)
Concat(parts) == IF parts = <<>> THEN <<>> ELSE Head(parts) \o Concat(Tail(parts))

\* re.sub(r"\D", "", s)
RECURSIVE DigitsOnly(_)
DigitsOnly(s) ==
    IF s = <<>> THEN <<>>
    ELSE (IF IsDigit(Head(s)) THEN <<Head(s)>> ELSE <<>>) \o DigitsOnly(Tail(s))

\* The value of a non-empty string of digits
RECURSIVE DigitsToNat(_)
DigitsToNat(s) ==
    IF s = <<>> THEN 0
    ELSE DigitsToNat(SubSeq(s, 1, Len(s) - 1)) * 10 + DigitVal(s[Len(s)])

\* The decimal digits of n >= 0, at least one
RECURSIVE NatToDigits(_)
NatToDigits(n) ==
    IF n < 10 THEN <<DigitChars[n + 1]>>
    ELSE NatToDigits(n \div 10) \o <<DigitChars[(n % 10) + 1]>>

\* format(n, "0<width>d") for n >= 0: zero-padded on the left to at least width
RECURSIVE ZeroPad(_, _)
ZeroPad(s, width) == IF Len(s) >= width THEN s ELSE ZeroPad(<<"0">> \o s, width)

FormatD(n, width) == ZeroPad(NatToDigits(n), width)

\* str.ljust(width, "0")
RECURSIVE LJustZero(_, _)
LJustZero(s, width) == IF Len(s) >= width THEN s ELSE LJustZero(s \o <<"0">>, width)

Ok(v) == [ok |-> TRUE, val |-> v]

\* raise cls(msg): the exception class and (the fixed part of) its message
Raise(cls, msg) == [ok |-> FALSE, err |-> cls, msg |-> msg]

None == [none |-> TRUE]

\* int(s) of Python for the model's alphabet: surrounding whitespace is
\* ignored, one sign is allowed, the rest must be one or more digits, with
\* single underscores allowed between digits.
IntOf(s) ==
    LET t == Strip(s)
        signed == t # <<>> /\ Head(t) \in {"-", "+"}
        body == IF signed THEN Tail(t) ELSE t
        grouped == /\ body # <<>>
                   /\ IsDigit(body[1]) /\ IsDigit(body[Len(body)])
                   /\ \A i \in 1..Len(body) : IsDigit(body[i]) \/ body[i] = "_"
                   /\ \A i \in 1..(Len(body) - 1) : body[i] # "_" \/ body[i + 1] # "_"
    IN  IF ~grouped
        THEN Raise("ValueError", "invalid literal for int()")
        ELSE Ok(IF signed /\ Head(t) = "-" THEN 0 - DigitsToNat(DigitsOnly(body))
                ELSE DigitsToNat(DigitsOnly(body)))

----------------------------------------------------------------------------
(* Timestamp codec                                                         *)

\* re.fullmatch(r"\d+(\.\d+)?", ts)
IsPureSeconds(ts) ==
    LET parts == SplitOn(ts, ".")
        AllDigits(p) == p # <<>> /\ \A i \in 1..Len(p) : IsDigit(p[i])
    IN  /\ Len(parts) \in {1, 2}
        /\ \A i \in 1..Len(parts) : AllDigits(parts[i])

\* The largest e with 2^e * d <= n, for n, d > 0 (the binary exponent of n/d)
RECURSIVE ExpUp(_, _, _)
ExpUp(n, d, e) == IF Pow(2, e + 1) * d <= n THEN ExpUp(n, d, e + 1) ELSE e

RECURSIVE ExpDown(_, _, _)
ExpDown(n, d, k) == IF n * Pow(2, k) < d THEN ExpDown(n, d, k + 1) ELSE k

BinExp(n, d) == IF n >= d THEN ExpUp(n, d, 0) ELSE 0 - ExpDown(n, d, 0)

RECURSIVE PowMod(_, _, _)
PowMod(b, k, m) == IF k = 0 THEN 1 % m ELSE (PowMod(b, k - 1, m) * b) % m

\* int(float(ts) * 1000) for ts = the digits of N with w of them after the
\* point, in IEEE-754 double precision: float(ts) is the double nearest to
\* N / 10^w (ties to even), the product is rounded again, and int() truncates.
\* With e the exponent of N / 10^w, the fraction lost by the first rounding is
\* r / 10^w units in the last place, r = N * 2^(52-e) mod 10^w; when the exact
\* product is an integer E, the second rounding lands below E exactly when the
\* first one rounded down by more than half a unit in the last place of E.
FloatTimes1000(N, w) ==
    IF N = 0 THEN 0
    ELSE LET g == IF w > 3 THEN Pow(10, w - 3) ELSE 1
         IN  IF N % g # 0 THEN N \div g
             ELSE LET E == IF w > 3 THEN N \div g ELSE N * Pow(10, 3 - w)
                      D == Pow(10, w)
                      e == BinExp(N, D)
                      R == ((N % (2 * D)) * PowMod(2, 52 - e, 2 * D)) % (2 * D)
                      r == R % D
                      qodd == R \div D
                      down == 2 * r < D \/ (2 * r = D /\ qodd = 0)
                      ep == BinExp(E, 1)
                      pow2 == E = Pow(2, ep)
                      lhs == 2000 * r * (IF pow2 THEN 2 ELSE 1)
                  IN  IF down /\ lhs > D * Pow(2, ep - e) THEN E - 1 ELSE E

PureSecondsMs(ts) ==
    LET parts == SplitOn(ts, ".")
        w == IF Len(parts) = 2 THEN Len(parts[2]) ELSE 0
    IN  FloatTimes1000(DigitsToNat(Concat(parts)), w)

\* ParseColonFields taking the fraction from the text between the first and
\* the second period only
ParseColonFields_firstfraction(hh, mm, rest) ==
    LET rest_parts == SplitOn(rest, ".")
        ss == IF rest_parts[1] # <<>> THEN rest_parts[1] ELSE <<"0">>
        joined == IF Len(rest_parts) > 1 THEN rest_parts[2] ELSE <<"0">>
        kept == DigitsOnly(joined)
        ms_digits == IF kept = <<>> THEN <<"0">> ELSE kept
        mmm == DigitsToNat(SubSeq(LJustZero(ms_digits, 3), 1, 3))
        h == IntOf(hh)
        m == IntOf(mm)
        s == IntOf(ss)
    IN  IF ~h.ok THEN h
        ELSE IF ~m.ok THEN m
        ELSE IF ~s.ok THEN s
        ELSE Ok((h.val * 3600 + m.val * 60 + s.val) * 1000 + mmm)

ParseColonFields(hh, mm, rest) ==
    LET rest_parts == SplitOn(rest, ".")
        ss == IF rest_parts[1] # <<>> THEN rest_parts[1] ELSE <<"0">>
        joined == IF Len(rest_parts) > 1 THEN Concat(Tail(rest_parts)) ELSE <<"0">>
        kept == DigitsOnly(joined)
        ms_digits == IF kept = <<>> THEN <<"0">> ELSE kept
        mmm == DigitsToNat(SubSeq(LJustZero(ms_digits, 3), 1, 3))
        h == IntOf(hh)
        m == IntOf(mm)
        s == IntOf(ss)
    IN  IF ~h.ok THEN h
        ELSE IF ~m.ok THEN m
        ELSE IF ~s.ok THEN s
        ELSE Ok((h.val * 3600 + m.val * 60 + s.val) * 1000 + mmm)

parse_ts_to_ms(raw) ==
    LET ts == ReplaceChar(Strip(raw), ",", ".")
    IN  IF ts = <<>> THEN Raise("ValueError", "empty timestamp")
        ELSE IF IsPureSeconds(ts) THEN Ok(PureSecondsMs(ts))
        ELSE LET parts == SplitOn(ts, ":")
             IN  IF Len(parts) = 3 THEN ParseColonFields(parts[1], parts[2], parts[3])
                 ELSE IF Len(parts) = 2 THEN ParseColonFields(<<"0">>, parts[1], parts[2])
                 ELSE Raise("ValueError", "bad timestamp structure")

\* A number of milliseconds of any size, sec * 1000 + ms with ms in 0..999:
\* Python's integers have no width, and the merge key compares a decoded
\* start with 10**12
Wide(sec, ms) == [sec |-> sec, ms |-> ms]

WideOf(ms) == Wide(ms \div 1000, ms % 1000)

\* ParseColonFields with the value as whole seconds and milliseconds
ColonFieldsWide(hh, mm, rest) ==
    LET rest_parts == SplitOn(rest, ".")
        ss == IF rest_parts[1] # <<>> THEN rest_parts[1] ELSE <<"0">>
        joined == IF Len(rest_parts) > 1 THEN Concat(Tail(rest_parts)) ELSE <<"0">>
        kept == DigitsOnly(joined)
        ms_digits == IF kept = <<>> THEN <<"0">> ELSE kept
        mmm == DigitsToNat(SubSeq(LJustZero(ms_digits, 3), 1, 3))
        h == IntOf(hh)
        m == IntOf(mm)
        s == IntOf(ss)
    IN  IF ~h.ok THEN h
        ELSE IF ~m.ok THEN m
        ELSE IF ~s.ok THEN s
        ELSE Ok(Wide(h.val * 3600 + m.val * 60 + s.val, mmm))

\* int(float(ts) * 1000) as whole seconds and milliseconds: whole seconds
\* times 1000 are exact in double precision
PureSecondsWide(ts) ==
    IF Len(SplitOn(ts, ".")) = 1 THEN Wide(DigitsToNat(ts), 0)
    ELSE WideOf(PureSecondsMs(ts))

\* parse_ts_to_ms with the value as whole seconds and milliseconds
parse_ts_to_ms_wide(raw) ==
    LET ts == ReplaceChar(Strip(raw), ",", ".")
    IN  IF ts = <<>> THEN Raise("ValueError", "empty timestamp")
        ELSE IF IsPureSeconds(ts) THEN Ok(PureSecondsWide(ts))
        ELSE LET parts == SplitOn(ts, ":")
             IN  IF Len(parts) = 3 THEN ColonFieldsWide(parts[1], parts[2], parts[3])
                 ELSE IF Len(parts) = 2 THEN ColonFieldsWide(<<"0">>, parts[1], parts[2])
                 ELSE Raise("ValueError", "bad timestamp structure")

\* ms_to_vtt with the millisecond field not zero-padded
ms_to_vtt_unpadded(ms0) ==
    LET ms == IF ms0 < 0 THEN 0 ELSE ms0
    IN  FormatD(ms \div 3600000, 2) \o <<":">> \o FormatD((ms % 3600000) \div 60000, 2)
            \o <<":">> \o FormatD((ms % 60000) \div 1000, 2)
            \o <<".">> \o FormatD(ms % 1000, 1)

ms_to_vtt(ms0) ==
    LET ms == IF ms0 < 0 THEN 0 ELSE ms0
        hh == ms \div 3600000
        r1 == ms % 3600000
        mm == r1 \div 60000
        r2 == r1 % 60000
        ss == r2 \div 1000
        mmm == r2 % 1000
    IN  FormatD(hh, 2) \o <<":">> \o FormatD(mm, 2) \o <<":">> \o FormatD(ss, 2)
            \o <<".">> \o FormatD(mmm, 3)

----------------------------------------------------------------------------
(* Lines, and the timestamp-line grammar TS_LINE_RE                        *)

\* txt.replace("\r\n", "\n").replace("\r", "\n"): a CR directly before an NL
\* is dropped, every other CR becomes an NL
MarkNewlines(s) ==
    [i \in 1..Len(s) |->
        IF s[i] # CR THEN s[i]
        ELSE IF i < Len(s) /\ s[i + 1] = NL THEN "DROP"
        ELSE NL]

IsKept(c) == c # "DROP"

NormalizeNewlines(s) == SelectSeq(MarkNewlines(s), IsKept)

\* Decoding as utf-8-sig drops one byte-order mark at the start of the file.
DecodeUtf8Sig(content) ==
    IF content # <<>> /\ Head(content) = BOM THEN Tail(content) ELSE content

\* The characters of the model's alphabet that end a line for
\* str.splitlines, "\r" being replaced before
IsLineEnd(c) == c \in {NL, FF}

\* str.splitlines(True): the lines with their line endings kept
RECURSIVE SplitLinesKeep(_)
SplitLinesKeep(s) ==
    IF s = <<>> THEN <<>>
    ELSE IF \A i \in 1..Len(s) : ~IsLineEnd(s[i]) THEN <<s>>
    ELSE LET k == CHOOSE i \in 1..Len(s) :
                      IsLineEnd(s[i]) /\ \A j \in 1..(i - 1) : ~IsLineEnd(s[j])
         IN  <<SubSeq(s, 1, k)>> \o SplitLinesKeep(SubSeq(s, k + 1, Len(s)))

read_text_lines(content) == SplitLinesKeep(NormalizeNewlines(DecodeUtf8Sig(content)))

write_text_lines(lines) == Concat(lines)

\* line.rstrip("\n")
RECURSIVE RStripNL(_)
RStripNL(s) ==
    IF s # <<>> /\ s[Len(s)] = NL THEN RStripNL(SubSeq(s, 1, Len(s) - 1)) ELSE s

\* s.lstrip("\ufeff")
RECURSIVE LStripBOM(_)
LStripBOM(s) == IF s # <<>> /\ Head(s) = BOM THEN LStripBOM(Tail(s)) ELSE s

IsBlank(line) == Strip(line) = <<>>

\* The number of leading whitespace characters of s
RECURSIVE LeadingSpaces(_)
LeadingSpaces(s) ==
    IF s # <<>> /\ IsSpace(Head(s)) THEN 1 + LeadingSpaces(Tail(s)) ELSE 0

\* The length of the leading run of non-whitespace characters of s
RECURSIVE LeadingToken(_)
LeadingToken(s) ==
    IF s # <<>> /\ ~IsSpace(Head(s)) THEN 1 + LeadingToken(Tail(s)) ELSE 0

\* s.split()[0]: the first whitespace-delimited token; IndexError when none
FirstToken(s) ==
    LET t == LStrip(s)
    IN  IF t = <<>> THEN Raise("IndexError", "list index out of range") ELSE Ok(SubSeq(t, 1, LeadingToken(t)))

NoMatch == [matched |-> FALSE]

\* An arrow at position k that the rest of the pattern can follow: "-->" and
\* then at least one character for (.+?), which matches anything but a newline.
ArrowAt(L, k) ==
    /\ k + 2 <= Len(L)
    /\ L[k] = "-" /\ L[k + 1] = "-" /\ L[k + 2] = ">"
    /\ \E i \in (k + 3)..Len(L) : L[i] # NL

\* Groups 2 and 3 of TS_LINE_RE on R, the text after the arrow: \s* is greedy,
\* (.+?) is lazy and (\s+.*)? is greedy, and $ matches at the end or before a
\* final newline.  has3 is whether group 3 took part in the match.
AfterArrow(R) ==
    LET q == LeadingSpaces(R)
        n == Len(R)
    IN  IF q < n
        THEN LET j == q + LeadingToken(SubSeq(R, q + 1, n))
                 rest == SubSeq(R, j + 1, n)
             IN  [g2 |-> SubSeq(R, q + 1, j),
                  has3 |-> rest # <<>>,
                  g3 |-> IF IsBlank(rest) THEN rest ELSE RStripNL(rest)]
        ELSE \* only whitespace follows: (.+?) takes the last character that
             \* is not the final newline
             IF R[n] = NL
             THEN [g2 |-> <<R[n - 1]>>, has3 |-> TRUE, g3 |-> <<NL>>]
             ELSE [g2 |-> <<R[n]>>, has3 |-> FALSE, g3 |-> <<>>]

\* TS_LINE_RE.match(L) for a line L whose only newline, if any, is its last
\* character: ^\s*(.+?)\s*-->\s*(.+?)(\s+.*)?$ .  The leading \s* is greedy and
\* (.+?) lazy, so group 1 starts at the first non-blank character and ends
\* before the first arrow after it; when the only arrow stands at the first
\* non-blank character, backtracking gives group 1 one leading blank.
TS_LINE_RE_match(L) ==
    LET p == LeadingSpaces(L) + 1
        later == {k \in (p + 1)..Len(L) : ArrowAt(L, k)}
    IN  IF later # {}
        THEN LET k == CHOOSE x \in later : \A y \in later : x <= y
             IN  [matched |-> TRUE, g1 |-> RStrip(SubSeq(L, p, k - 1))]
                     @@ AfterArrow(SubSeq(L, k + 3, Len(L)))
        ELSE IF p >= 2 /\ ArrowAt(L, p)
        THEN [matched |-> TRUE, g1 |-> <<L[p - 1]>>]
                 @@ AfterArrow(SubSeq(L, p + 3, Len(L)))
        ELSE NoMatch

----------------------------------------------------------------------------
(* 1) clean / check / fix                                                  *)

ARROW == <<SP, "-", "-", ">", SP>>

\* FixRender dropping what follows the end timestamp
FixRender_notail(idx, line, start_raw, end_raw, tail, s_ms, e_ms, swapped) ==
    LET new_line == RStrip(ms_to_vtt(s_ms) \o ARROW \o ms_to_vtt(e_ms)) \o <<NL>>
        action == IF swapped THEN "SWAP_START_END"
                  ELSE IF Strip(line) # Strip(new_line) THEN "NORMALIZE"
                  ELSE "NONE"
    IN  Ok([line |-> new_line,
            log |-> IF action = "NONE" THEN <<>>
                    ELSE <<[line_no |-> idx, action |-> action,
                            detail |-> start_raw \o ARROW \o end_raw]>>])

\* The line fix_vtt_timestamps writes for decoded start s and end e, and its
\* log entry: the values swapped when the end precedes the start
FixRender(idx, line, start_raw, end_raw, tail, s_ms, e_ms, swapped) ==
    LET new_line == RStrip(ms_to_vtt(s_ms) \o ARROW \o ms_to_vtt(e_ms) \o tail) \o <<NL>>
        action == IF swapped THEN "SWAP_START_END"
                  ELSE IF Strip(line) # Strip(new_line) THEN "NORMALIZE"
                  ELSE "NONE"
    IN  Ok([line |-> new_line,
            log |-> IF action = "NONE" THEN <<>>
                    ELSE <<[line_no |-> idx, action |-> action,
                            detail |-> start_raw \o ARROW \o end_raw]>>])

\* FixDecoded logging the swap but writing the two values in their old order
FixDecoded_noswap(idx, line, start_raw, end_raw, tail, s, e) ==
    IF ~s.ok \/ ~e.ok
    THEN Ok([line |-> line,
             log |-> <<[line_no |-> idx, action |-> "SKIP_UNPARSEABLE",
                        detail |-> IF ~s.ok THEN s.msg ELSE e.msg]>>])
    ELSE FixRender(idx, line, start_raw, end_raw, tail, s.val, e.val, e.val < s.val)

FixDecoded(idx, line, start_raw, end_raw, tail, s, e) ==
    IF ~s.ok \/ ~e.ok
    THEN Ok([line |-> line,
             log |-> <<[line_no |-> idx, action |-> "SKIP_UNPARSEABLE",
                        detail |-> IF ~s.ok THEN s.msg ELSE e.msg]>>])
    ELSE IF e.val < s.val
    THEN FixRender(idx, line, start_raw, end_raw, tail, e.val, s.val, TRUE)
    ELSE FixRender(idx, line, start_raw, end_raw, tail, s.val, e.val, FALSE)

FixMatched(idx, line, start_raw, end_tok, tail) ==
    IF ~end_tok.ok THEN end_tok
    ELSE FixDecoded(idx, line, start_raw, end_tok.val, tail,
                    parse_ts_to_ms(start_raw), parse_ts_to_ms(end_tok.val))

FixMatch(idx, line, m) ==
    IF ~m.matched THEN Ok([line |-> line, log |-> <<>>])
    ELSE FixMatched(idx, line, Strip(m.g1), FirstToken(Strip(m.g2)),
                    IF m.has3 THEN m.g3 ELSE <<>>)

\* One pass of the loop of fix_vtt_timestamps over line number idx: the line
\* written and the log entries added, or the exception that ends the call.
FixLine(idx, line) == FixMatch(idx, line, TS_LINE_RE_match(line))

RECURSIVE FixFrom(_, _, _, _)
FixStep(lines, idx, fixed_lines, fix_log, r) ==
    IF ~r.ok THEN r
    ELSE FixFrom(lines, idx + 1, Append(fixed_lines, r.val.line), fix_log \o r.val.log)

FixFrom(lines, idx, fixed_lines, fix_log) ==
    IF idx > Len(lines) THEN Ok([fixed_lines |-> fixed_lines, fix_log |-> fix_log])
    ELSE FixStep(lines, idx, fixed_lines, fix_log, FixLine(idx, lines[idx]))

fix_vtt_timestamps(lines) == FixFrom(lines, 1, <<>>, <<>>)

CheckDecoded(idx, raw_line, s, e) ==
    IF ~s.ok \/ ~e.ok
    THEN Ok([issues |-> <<[line_no |-> idx, kind |-> "PARSE_FAIL",
                           detail |-> IF ~s.ok THEN s.msg ELSE e.msg,
                           raw_line |-> raw_line]>>,
             cues |-> <<>>])
    ELSE Ok([issues |-> IF e.val < s.val
                        THEN <<[line_no |-> idx, kind |-> "END_BEFORE_START",
                                detail |-> <<s.val, e.val>>, raw_line |-> raw_line]>>
                        ELSE <<>>,
             cues |-> <<[line_no |-> idx, s_ms |-> s.val, e_ms |-> e.val,
                         raw_line |-> raw_line]>>])

CheckMatched(idx, raw_line, start_raw, end_tok) ==
    IF ~end_tok.ok THEN end_tok
    ELSE CheckDecoded(idx, raw_line, parse_ts_to_ms(start_raw),
                      parse_ts_to_ms(end_tok.val))

CheckMatch(idx, line, m) ==
    IF ~m.matched THEN Ok([issues |-> <<>>, cues |-> <<>>])
    ELSE CheckMatched(idx, RStripNL(line), Strip(m.g1), FirstToken(Strip(m.g2)))

\* One pass of the first loop of check_and_collect_issues over line idx:
\* the issues and the cues it adds, or the exception that ends the call.
CheckLine(idx, line) == CheckMatch(idx, line, TS_LINE_RE_match(line))

RECURSIVE CheckFrom(_, _, _, _)
CheckStep(lines, idx, issues, cues, r) ==
    IF ~r.ok THEN r
    ELSE CheckFrom(lines, idx + 1, issues \o r.val.issues, cues \o r.val.cues)

CheckFrom(lines, idx, issues, cues) ==
    IF idx > Len(lines) THEN Ok([issues |-> issues, cues |-> cues])
    ELSE CheckStep(lines, idx, issues, cues, CheckLine(idx, lines[idx]))

\* TimelineIssues reporting a start that equals the start before it
TimelineIssues_nonstrict(c, last) ==
        (IF c.s_ms <= last.s_ms
         THEN <<[line_no |-> c.line_no, kind |-> "START_DECREASED",
                 detail |-> <<last.s_ms, c.s_ms, last.line_no>>,
                 raw_line |-> c.raw_line]>>
         ELSE <<>>)
        \o
        (IF c.s_ms < last.e_ms
         THEN <<[line_no |-> c.line_no, kind |-> "OVERLAP",
                 detail |-> <<last.e_ms, c.s_ms, last.line_no>>,
                 raw_line |-> c.raw_line]>>
         ELSE <<>>)

\* The second loop of check_and_collect_issues: cue c against the cue before it
TimelineIssues(c, last) ==
        (IF c.s_ms < last.s_ms
         THEN <<[line_no |-> c.line_no, kind |-> "START_DECREASED",
                 detail |-> <<last.s_ms, c.s_ms, last.line_no>>,
                 raw_line |-> c.raw_line]>>
         ELSE <<>>)
        \o
        (IF c.s_ms < last.e_ms
         THEN <<[line_no |-> c.line_no, kind |-> "OVERLAP",
                 detail |-> <<last.e_ms, c.s_ms, last.line_no>>,
                 raw_line |-> c.raw_line]>>
         ELSE <<>>)

RECURSIVE TimelineFrom(_, _)
TimelineFrom(cues, i) ==
    IF i > Len(cues) THEN <<>>
    ELSE (IF i = 1 THEN <<>> ELSE TimelineIssues(cues[i], cues[i - 1]))
             \o TimelineFrom(cues, i + 1)

CheckTimeline(r) ==
    IF ~r.ok THEN r
    ELSE Ok([issues |-> r.val.issues \o TimelineFrom(r.val.cues, 1), cues |-> r.val.cues])

check_and_collect_issues(lines) == CheckTimeline(CheckFrom(lines, 1, <<>>, <<>>))

----------------------------------------------------------------------------
(* Document splitter and cue parser                                        *)

LowerChars ==
    <<"a", "b", "c", "d", "e", "f", "g", "h", "i", "j", "k", "l", "m",
      "n", "o", "p", "q", "r", "s", "t", "u", "v", "w", "x", "y", "z">>

UpperChars ==
    <<"A", "B", "C", "D", "E", "F", "G", "H", "I", "J", "K", "L", "M",
      "N", "O", "P", "Q", "R", "S", "T", "U", "V", "W", "X", "Y", "Z">>

IsLower(c) == \E i \in 1..26 : LowerChars[i] = c

IsUpper(c) == \E i \in 1..26 : UpperChars[i] = c

\* str.upper() and str.lower(), character by character
UpperChar(c) ==
    IF IsLower(c) THEN UpperChars[CHOOSE i \in 1..26 : LowerChars[i] = c] ELSE c

LowerChar(c) ==
    IF IsUpper(c) THEN LowerChars[CHOOSE i \in 1..26 : UpperChars[i] = c] ELSE c

Upper(s) == [i \in 1..Len(s) |-> UpperChar(s[i])]

Lower(s) == [i \in 1..Len(s) |-> LowerChar(s[i])]

WEBVTT == <<"W", "E", "B", "V", "T", "T">>

StartsWith(s, prefix) ==
    Len(s) >= Len(prefix) /\ SubSeq(s, 1, Len(prefix)) = prefix

\* line.lstrip("\ufeff").strip().upper().startswith("WEBVTT")
IsSignature(line) == StartsWith(Upper(Strip(LStripBOM(line))), WEBVTT)

\* The number of lines from position i on that are blank (blank = TRUE) or
\* non-blank (blank = FALSE), up to the first line of the other kind
RECURSIVE RunOf(_, _, _)
RunOf(lines, i, blank) ==
    IF i <= Len(lines) /\ IsBlank(lines[i]) = blank
    THEN 1 + RunOf(lines, i + 1, blank)
    ELSE 0

\* split_header_and_body with i the index of the first line after the
\* leading blank lines
SplitAt(lines, i) ==
    LET sig == i <= Len(lines) /\ IsSignature(lines[i])
        j == IF sig THEN i + 1 ELSE i
        k == j + RunOf(lines, j, FALSE)
        b == k + RunOf(lines, k, TRUE)
    IN  [header |-> (IF sig THEN <<LStripBOM(lines[i])>> ELSE <<>>)
                        \o SubSeq(lines, j, b - 1),
         body |-> SubSeq(lines, b, Len(lines))]

split_header_and_body(lines) == SplitAt(lines, 1 + RunOf(lines, 1, TRUE))

RStripNLAll(lines) == [i \in 1..Len(lines) |-> RStripNL(lines[i])]

RECURSIVE IterFrom(_, _, _)
\* A timestamp line at i whose two sides decoded: its text lines are the
\* non-blank lines that follow, and the blank lines after them are consumed.
IterCue(lines, i, cues, s_ms, e_ms, n) ==
    IterFrom(lines, i + 1 + n + RunOf(lines, i + 1 + n, TRUE),
             Append(cues, [start_ms |-> s_ms, end_ms |-> e_ms,
                           text_lines |-> RStripNLAll(SubSeq(lines, i + 1, i + n)),
                           ts_line |-> RStripNL(lines[i])]))

IterDecoded(lines, i, cues, s, e) ==
    IF ~s.ok \/ ~e.ok THEN IterFrom(lines, i + 1, cues)
    ELSE IterCue(lines, i, cues, s.val, e.val, RunOf(lines, i + 1, FALSE))

IterMatched(lines, i, cues, start_raw, end_tok) ==
    IF ~end_tok.ok THEN end_tok
    ELSE IterDecoded(lines, i, cues, parse_ts_to_ms(start_raw),
                     parse_ts_to_ms(end_tok.val))

IterMatch(lines, i, cues, m) ==
    IF ~m.matched THEN IterFrom(lines, i + 1, cues)
    ELSE IterMatched(lines, i, cues, Strip(m.g1), FirstToken(Strip(m.g2)))

IterFrom(lines, i, cues) ==
    IF i > Len(lines) THEN Ok(cues)
    ELSE IterMatch(lines, i, cues, TS_LINE_RE_match(lines[i]))

iter_cues(body_lines) == IterFrom(body_lines, 1, <<>>)

----------------------------------------------------------------------------
(* Paths and files                                                         *)

Path(dir, name) == [dir |-> dir, name |-> name]

\* The index of the last "." of name that pathlib takes to start the suffix,
\* or 0: a dot that neither starts nor ends the name
SuffixDot(name) ==
    LET dots == {i \in 1..Len(name) : name[i] = "."}
        last == IF dots = {} THEN 0 ELSE CHOOSE i \in dots : \A j \in dots : j <= i
    IN  IF 1 < last /\ last < Len(name) THEN last ELSE 0

\* Path.suffix and Path.stem
suffix(name) ==
    IF SuffixDot(name) = 0 THEN <<>> ELSE SubSeq(name, SuffixDot(name), Len(name))

stem(name) ==
    IF SuffixDot(name) = 0 THEN name ELSE SubSeq(name, 1, SuffixDot(name) - 1)

Exists(files, p) == p \in DOMAIN files

\* Path.write_text / Path.unlink on the file system
WriteFile(files, p, content) == (p :> content) @@ files

Unlink(files, p) == [q \in (DOMAIN files) \ {p} |-> files[q]]

\* The outcome of a command: the exception it ended with, if any, the file
\* system it leaves, and what it printed or returned.
Done(files, ds, out) ==
    [status |-> "ok", msg |-> "", fs |-> files, dirs |-> ds, out |-> out]

Failed(e, files, ds) ==
    [status |-> e.err, msg |-> e.msg, fs |-> files, dirs |-> ds, out |-> <<>>]

FILE_NOT_FOUND == Raise("FileNotFoundError", "No such file or directory")

S_fixed == <<"_", "f", "i", "x", "e", "d">>

CleanWrite(files, ds, out_path, issues, fx) ==
    IF ~fx.ok THEN Failed(fx, files, ds)
    ELSE Done(WriteFile(files, out_path, write_text_lines(fx.val.fixed_lines)), ds,
              [issues |-> issues, fixed_lines |-> fx.val.fixed_lines,
               fix_log |-> fx.val.fix_log, out_path |-> out_path])

CleanLines(files, ds, in_path, fix, lines, chk) ==
    IF ~chk.ok THEN Failed(chk, files, ds)
    ELSE IF ~fix THEN Done(files, ds, [issues |-> chk.val.issues, fix_log |-> <<>>])
    ELSE CleanWrite(files, ds,
                    Path(in_path.dir, stem(in_path.name) \o S_fixed \o suffix(in_path.name)),
                    chk.val.issues, fix_vtt_timestamps(lines))

\* cmd_clean(in_file, out_file = None, fix, show): check, report, and with
\* --fix write the fixed lines next to the input as <stem>_fixed<suffix>
cmd_clean(files, ds, in_path, fix) ==
    IF ~Exists(files, in_path) THEN Failed(FILE_NOT_FOUND, files, ds)
    ELSE CleanLines(files, ds, in_path, fix, read_text_lines(files[in_path]),
                    check_and_collect_issues(read_text_lines(files[in_path])))

----------------------------------------------------------------------------
(* Chunker: cmd_split                                                      *)

NO_CUES_FOUND ==
    Raise("ValueError", "No cues found. Is this a valid VTT with timestamp lines?")

ZERO_DIVISION == Raise("ZeroDivisionError", "integer division or modulo by zero")

MS_PER_MINUTE == 60000

S_part == <<"_", "p", "a", "r", "t">>

S_vtt == <<".", "v", "t", "t">>

DEFAULT_HEADER == <<WEBVTT \o <<NL>>, <<NL>>>>

RECURSIVE MinStart(_, _)
\* min(c.start_ms for c in cues) over cues[i..], cues not empty
MinStart(cues, i) ==
    IF i = Len(cues) THEN cues[i].start_ms
    ELSE Min(cues[i].start_ms, MinStart(cues, i + 1))

\* chunk_index as it would be if it counted from zero whatever the base
chunk_index_from_zero(start_ms, base_ms, chunk_ms) == Max(0, start_ms \div chunk_ms)

chunk_index(start_ms, base_ms, chunk_ms) == Max(0, (start_ms - base_ms) \div chunk_ms)

\* AddToBucket putting the cue in place of the bucket instead of at its end
AddToBucket_replace(buckets, idx, c) ==
    [k \in 1..Max(Len(buckets), idx + 1) |->
        IF k = idx + 1 THEN <<c>>
        ELSE IF k <= Len(buckets) THEN buckets[k]
        ELSE <<>>]

\* while len(buckets) <= idx: buckets.append([]); buckets[idx].append(c)
\* (bucket idx is buckets[idx + 1] here)
AddToBucket(buckets, idx, c) ==
    [k \in 1..Max(Len(buckets), idx + 1) |->
        IF k = idx + 1 THEN Append(IF k <= Len(buckets) THEN buckets[k] ELSE <<>>, c)
        ELSE IF k <= Len(buckets) THEN buckets[k]
        ELSE <<>>]

RECURSIVE GroupCues(_, _, _, _, _)
GroupCues(cues, i, base_ms, chunk_ms, buckets) ==
    IF i > Len(cues) THEN buckets
    ELSE GroupCues(cues, i + 1, base_ms, chunk_ms,
                   AddToBucket(buckets, chunk_index(cues[i].start_ms, base_ms, chunk_ms),
                               cues[i]))

AddNL(lines) == [i \in 1..Len(lines) |-> lines[i] \o <<NL>>]

\* The lines one cue contributes to a part file
SplitCueLines(c, rebase, chunk_start) ==
    <<IF rebase
      THEN ms_to_vtt(c.start_ms - chunk_start) \o ARROW
               \o ms_to_vtt(c.end_ms - chunk_start) \o <<NL>>
      ELSE RStrip(c.ts_line) \o <<NL>>>>
        \o AddNL(c.text_lines) \o <<<<NL>>>>

RECURSIVE SplitBucketLines(_, _, _, _)
SplitBucketLines(bucket, i, rebase, chunk_start) ==
    IF i > Len(bucket) THEN <<>>
    ELSE SplitCueLines(bucket[i], rebase, chunk_start)
             \o SplitBucketLines(bucket, i + 1, rebase, chunk_start)

PartPath(out_base_dir, in_path, idx) ==
    Path(out_base_dir, stem(in_path.name) \o S_part \o NatToDigits(idx) \o S_vtt)

StartsOf(cues) == [i \in 1..Len(cues) |-> cues[i].start_ms]

RECURSIVE SplitWrite(_, _, _, _, _, _, _, _, _, _, _)
\* The loop over enumerate(buckets, start = 1): every non-empty bucket is
\* written as <stem>_part<idx>.vtt
SplitWrite(files, ds, in_path, out_base_dir, header, buckets, idx, base_ms, chunk_ms, rebase, parts) ==
    IF idx > Len(buckets)
    THEN Done(files, ds, [written |-> Len(parts), parts |-> parts])
    ELSE IF buckets[idx] = <<>>
    THEN SplitWrite(files, ds, in_path, out_base_dir, header, buckets, idx + 1,
                    base_ms, chunk_ms, rebase, parts)
    ELSE SplitWrite(WriteFile(files, PartPath(out_base_dir, in_path, idx),
                        write_text_lines(
                            (IF header # <<>> THEN header ELSE DEFAULT_HEADER)
                                \o SplitBucketLines(buckets[idx], 1, rebase,
                                                    base_ms + (idx - 1) * chunk_ms))),
                    ds, in_path, out_base_dir, header, buckets, idx + 1,
                    base_ms, chunk_ms, rebase,
                    Append(parts, [idx |-> idx,
                                   path |-> PartPath(out_base_dir, in_path, idx),
                                   starts |-> StartsOf(buckets[idx])]))

SplitBased(files, ds, in_path, out_base_dir, header, cues, chunk_ms, rebase, base_ms) ==
    SplitWrite(files, ds, in_path, out_base_dir, header,
               GroupCues(cues, 1, base_ms, chunk_ms, <<>>), 1, base_ms, chunk_ms,
               rebase, <<>>)

\* out_dir = None, the --out_dir that was not given
NO_OUT_DIR == <<"None">>

\* Path(out_dir) if out_dir else in_path.parent
OutBaseDir(out_dir, in_path) == IF out_dir \in {NO_OUT_DIR, <<>>} THEN in_path.dir ELSE out_dir

\* After out_base_dir.mkdir(parents = True, exist_ok = True)
SplitChunks(files, ds, in_path, out_base_dir, header, cues, chunk_ms, rebase, start_at_zero) ==
    IF chunk_ms = 0 THEN Failed(ZERO_DIVISION, files, ds)
    ELSE SplitBased(files, ds, in_path, out_base_dir, header, cues, chunk_ms, rebase,
                    IF start_at_zero THEN 0
                    ELSE (MinStart(cues, 1) \div chunk_ms) * chunk_ms)

\* cmd_split as it would be with the output directory made before the cues
\* are counted
SplitCues_mkdir_first(files, ds, in_path, out_dir, minutes, rebase, start_at_zero, header, cues) ==
    IF ~cues.ok THEN Failed(cues, files, ds)
    ELSE IF cues.val = <<>>
    THEN Failed(NO_CUES_FOUND, files,
                ds \cup {OutBaseDir(out_dir, in_path)})
    ELSE SplitChunks(files, ds \cup {OutBaseDir(out_dir, in_path)},
                     in_path, OutBaseDir(out_dir, in_path),
                     header, cues.val, minutes * MS_PER_MINUTE, rebase, start_at_zero)

SplitCues(files, ds, in_path, out_dir, minutes, rebase, start_at_zero, header, cues) ==
    IF ~cues.ok THEN Failed(cues, files, ds)
    ELSE IF cues.val = <<>> THEN Failed(NO_CUES_FOUND, files, ds)
    ELSE SplitChunks(files, ds \cup {OutBaseDir(out_dir, in_path)},
                     in_path, OutBaseDir(out_dir, in_path),
                     header, cues.val, minutes * MS_PER_MINUTE, rebase, start_at_zero)

SplitParsed(files, ds, in_path, out_dir, minutes, rebase, start_at_zero, hb) ==
    SplitCues(files, ds, in_path, out_dir, minutes, rebase, start_at_zero,
              hb.header, iter_cues(hb.body))

\* cmd_split(in_file, out_dir, minutes, rebase, start_at_zero)
cmd_split(files, ds, in_path, out_dir, minutes, rebase, start_at_zero) ==
    IF ~Exists(files, in_path) THEN Failed(FILE_NOT_FOUND, files, ds)
    ELSE SplitParsed(files, ds, in_path, out_dir, minutes, rebase, start_at_zero,
                     split_header_and_body(read_text_lines(files[in_path])))

----------------------------------------------------------------------------
(* Merger: cmd_merge                                                       *)

\* The printable ASCII characters in code-point order, from " " (32); the
\* grave accent (96) is written as a token
ASCII ==
    <<" ", "!", "\"", "#", "$", "%", "&", "'", "(", ")", "*", "+", ",", "-", ".", "/",
      "0", "1", "2", "3", "4", "5", "6", "7", "8", "9", ":", ";", "<", "=", ">", "?",
      "@", "A", "B", "C", "D", "E", "F", "G", "H", "I", "J", "K", "L", "M", "N", "O",
      "P", "Q", "R", "S", "T", "U", "V", "W", "X", "Y", "Z", "[", "\\", "]", "^", "_",
      "U+0060", "a", "b", "c", "d", "e", "f", "g", "h", "i", "j", "k", "l", "m", "n", "o",
      "p", "q", "r", "s", "t", "u", "v", "w", "x", "y", "z", "{", "|", "}", "~">>

Ord(c) == 31 + CHOOSE i \in 1..Len(ASCII) : ASCII[i] = c

RECURSIVE StrLess(_, _)
\* a < b for Python strings: by code point, a proper prefix first
StrLess(a, b) ==
    IF b = <<>> THEN FALSE
    ELSE IF a = <<>> THEN TRUE
    ELSE IF Head(a) # Head(b) THEN Ord(Head(a)) < Ord(Head(b))
    ELSE StrLess(Tail(a), Tail(b))

IsLetter(c) == IsLower(c) \/ IsUpper(c)

S_PART == <<"P", "A", "R", "T">>

NO_PART_NUMBER == 1000000000

\* PARTNUM_RE can match with its "part" at q: "part" in any case, at the start
\* of s or after a character that is not a letter, then optional whitespace
\* and at least one digit
PartAt(s, q) ==
    /\ q + 3 <= Len(s)
    /\ Upper(SubSeq(s, q, q + 3)) = S_PART
    /\ q = 1 \/ ~IsLetter(s[q - 1])
    /\ LET rest == SubSeq(s, q + 4, Len(s))
       IN  LeadingSpaces(rest) < Len(rest) /\ IsDigit(rest[LeadingSpaces(rest) + 1])

\* The length of the leading run of digits of s
RECURSIVE LeadingDigits(_)
LeadingDigits(s) ==
    IF s # <<>> /\ IsDigit(Head(s)) THEN 1 + LeadingDigits(Tail(s)) ELSE 0

\* int(m.group(1)) for the match with "part" at q: 0* and (\d+) together take
\* the whole run of digits
PartNumberAt(s, q) ==
    LET rest == LStrip(SubSeq(s, q + 4, Len(s)))
    IN  DigitsToNat(SubSeq(rest, 1, LeadingDigits(rest)))

\* part_number_from_name(path), of path.stem
part_number_from_name(name) ==
    LET st == stem(name)
        qs == {q \in 1..Len(st) : PartAt(st, q)}
    IN  IF qs = {} THEN NO_PART_NUMBER
        ELSE PartNumberAt(st, CHOOSE q \in qs : \A r \in qs : q <= r)

\* first_cue_start_ms returns 10**12 for a document without a decodable
\* start
NO_CUE_START == Wide(1000000000, 0)

RECURSIVE FirstCueFrom(_, _)
FirstCueParsed(body, i, s) ==
    IF s.ok THEN s.val ELSE FirstCueFrom(body, i + 1)

FirstCueMatch(body, i, m) ==
    IF ~m.matched THEN FirstCueFrom(body, i + 1)
    ELSE FirstCueParsed(body, i, parse_ts_to_ms_wide(Strip(m.g1)))

FirstCueFrom(body, i) ==
    IF i > Len(body) THEN NO_CUE_START
    ELSE FirstCueMatch(body, i, TS_LINE_RE_match(body[i]))

first_cue_start_ms(content) ==
    FirstCueFrom(split_header_and_body(read_text_lines(content)).body, 1)

KeepHeader(hb) ==
    [header |-> IF hb.header = <<>> THEN DEFAULT_HEADER ELSE hb.header, body |-> hb.body]

read_vtt_keep_header(content) == KeepHeader(split_header_and_body(read_text_lines(content)))

\* a < b for two numbers of milliseconds
StartLess(a, b) == a.sec < b.sec \/ (a.sec = b.sec /\ a.ms < b.ms)

\* (t0, pn, name.lower()) < (t0, pn, name.lower()) as Python compares tuples
KeyLess(x, y) ==
    IF x.t0 # y.t0 THEN StartLess(x.t0, y.t0)
    ELSE IF x.pn # y.pn THEN x.pn < y.pn
    ELSE StrLess(x.lname, y.lname)

\* The file a path that glob found leads to
FileOf(f) == Path(f.dir, f.name)

Enrich(files, f) ==
    [t0 |-> first_cue_start_ms(files[FileOf(f)]), pn |-> part_number_from_name(f.name),
     lname |-> Lower(f.name), f |-> f]

RECURSIVE InsertSorted(_, _)
\* x goes before the first member it is strictly less than (a stable sort)
InsertSorted(sorted, x) ==
    IF sorted = <<>> THEN <<x>>
    ELSE IF KeyLess(x, Head(sorted)) THEN <<x>> \o sorted
    ELSE <<Head(sorted)>> \o InsertSorted(Tail(sorted), x)

RECURSIVE SortEnriched(_, _, _, _)
\* enriched.sort(key = ...) of the files in the order they were enumerated
SortEnriched(files, listing, i, sorted) ==
    IF i > Len(listing) THEN sorted
    ELSE SortEnriched(files, listing, i + 1, InsertSorted(sorted, Enrich(files, listing[i])))

\* The number of blank lines at the end of lines[1..n]
RECURSIVE BlankRunBack(_, _)
BlankRunBack(lines, n) ==
    IF n >= 1 /\ IsBlank(lines[n]) THEN 1 + BlankRunBack(lines, n - 1) ELSE 0

\* The body without its leading and trailing blank lines
TrimBody(body) ==
    SubSeq(body, 1 + RunOf(body, 1, TRUE), Len(body) - BlankRunBack(body, Len(body)))

\* The header of the first file, followed by a blank line if it has none
MergeHeader(header) ==
    IF header # <<>> /\ ~IsBlank(header[Len(header)]) THEN Append(header, <<NL>>)
    ELSE header

MergeBody(body) == IF body = <<>> THEN <<>> ELSE Append(body, <<NL>>)

RECURSIVE MergeLines(_, _, _)
MergeLines(files, sorted, i) ==
    IF i > Len(sorted) THEN <<>>
    ELSE (IF i = 1 THEN MergeHeader(read_vtt_keep_header(files[FileOf(sorted[i].f)]).header)
          ELSE <<>>)
             \o MergeBody(TrimBody(read_vtt_keep_header(files[FileOf(sorted[i].f)]).body))
             \o MergeLines(files, sorted, i + 1)

NO_VTT_FILES == Raise("FileNotFoundError", "No VTT files found")

NamesOf(sorted) == [i \in 1..Len(sorted) |-> sorted[i].f.name]

MergeWrite(files, ds, output_file, sorted) ==
    IF output_file.dir \notin ds THEN Failed(FILE_NOT_FOUND, files, ds)
    ELSE Done(WriteFile(files, output_file,
                        RStrip(Concat(MergeLines(files, sorted, 1))) \o <<NL>>),
              ds, [order |-> NamesOf(sorted), output_file |-> output_file])

RECURSIVE SetChunks(_, _, _)
\* fnmatch.translate cuts the text of a character set (what stands between
\* "[" and "]") into chunks at the hyphens that stand for a range: the chunk
\* from i ends before the first hyphen at k or later, the search goes on two
\* characters after the hyphen, and a hyphen at the end stands for itself
SetChunks(stuff, i, k) ==
    LET found == {p \in k..(Len(stuff) - 1) : stuff[p] = "-"}
    IN  IF found = {} THEN <<SubSeq(stuff, i, Len(stuff))>>
        ELSE LET p == CHOOSE x \in found : \A y \in found : x <= y
             IN  <<SubSeq(stuff, i, p - 1)>> \o SetChunks(stuff, p + 1, p + 3)

RECURSIVE DropEmptyRanges(_, _)
\* "Remove empty ranges": from the last pair of chunks to the first, a range
\* whose start is above its end goes, both ends with it, and the two chunks
\* become one
DropEmptyRanges(chunks, k) ==
    IF k < 2 THEN chunks
    ELSE IF Ord(chunks[k - 1][Len(chunks[k - 1])]) > Ord(chunks[k][1])
    THEN DropEmptyRanges(SubSeq(chunks, 1, k - 2)
                             \o <<SubSeq(chunks[k - 1], 1, Len(chunks[k - 1]) - 1)
                                      \o Tail(chunks[k])>>
                             \o SubSeq(chunks, k + 1, Len(chunks)),
                         k - 1)
    ELSE DropEmptyRanges(chunks, k - 1)

\* c is in the set written by the chunks joined with "-": between the end of
\* a chunk and the start of the next, or one of the other characters
InCharSet(c, chunks) ==
    \/ \E k \in 1..(Len(chunks) - 1) :
           /\ Ord(chunks[k][Len(chunks[k])]) <= Ord(c)
           /\ Ord(c) <= Ord(chunks[k + 1][1])
    \/ \E k \in 1..Len(chunks) : \E i \in 1..Len(chunks[k]) :
           /\ chunks[k][i] = c
           /\ i > 1 \/ k = 1
           /\ i < Len(chunks[k]) \/ k = Len(chunks)

\* The chunks of a set that begins with "!" once the "!" is taken for the
\* negation: when it was a chunk of its own, the hyphen after it stands for
\* itself
AfterNegation(chunks) ==
    IF Len(chunks[1]) > 1 \/ Len(chunks) = 1 THEN <<Tail(chunks[1])>> \o Tail(chunks)
    ELSE <<<<"-">> \o chunks[2]>> \o SubSeq(chunks, 3, Len(chunks))

\* c matches the set of the chunks left: no text matches nothing, "!" alone
\* anything, a first "!" negates, also one that an empty range has left first
ChunksMatch(c, chunks) ==
    IF chunks = <<<<>>>> THEN FALSE
    ELSE IF chunks = <<<<"!">>>> THEN TRUE
    ELSE IF chunks[1][1] = "!" THEN ~InCharSet(c, AfterNegation(chunks))
    ELSE InCharSet(c, chunks)

\* The place of the "]" that closes the set opened by pat[1] = "[", 0 when
\* there is none: a "]" right after "[" or "[!" is a member of the set
SetEnd(pat) ==
    LET j0 == IF Len(pat) >= 2 /\ pat[2] = "!" THEN 3 ELSE 2
        j == IF j0 <= Len(pat) /\ pat[j0] = "]" THEN j0 + 1 ELSE j0
        closes == {e \in j..Len(pat) : pat[e] = "]"}
    IN  IF closes = {} THEN 0 ELSE CHOOSE e \in closes : \A f \in closes : e <= f

\* c matches the set pat[1..e]
SetMatch(c, pat, e) ==
    LET chunks == SetChunks(SubSeq(pat, 2, e - 1), 1, IF pat[2] = "!" THEN 3 ELSE 2)
    IN  ChunksMatch(c, DropEmptyRanges(chunks, Len(chunks)))

RECURSIVE GlobMatch(_, _)
\* The name matches the pattern as pathlib's glob matches one path component
\* (fnmatch): "*" stands for any characters, "?" for one, "[...]" for one of a
\* set, "[!...]" for one outside it, a "[" that is not closed for itself
GlobMatch(name, pattern) ==
    IF pattern = <<>> THEN name = <<>>
    ELSE IF Head(pattern) = "*"
    THEN \E k \in 0..Len(name) : GlobMatch(SubSeq(name, k + 1, Len(name)), Tail(pattern))
    ELSE IF name = <<>> THEN FALSE
    ELSE IF Head(pattern) = "?" THEN GlobMatch(Tail(name), Tail(pattern))
    ELSE IF Head(pattern) = "[" /\ SetEnd(pattern) > 0
    THEN /\ SetMatch(Head(name), pattern, SetEnd(pattern))
         /\ GlobMatch(Tail(name), SubSeq(pattern, SetEnd(pattern) + 1, Len(pattern)))
    ELSE Head(name) = Head(pattern) /\ GlobMatch(Tail(name), Tail(pattern))

\* "**" stands inside a path component
HasDoubleStar(part) ==
    \E i \in 1..(Len(part) - 1) : part[i] = "*" /\ part[i + 1] = "*"

\* The path components of a pattern: the texts between "/" without the empty
\* ones and ".", and an empty one at the end for a pattern that ends in "/"
PatternParts(pattern) ==
    SelectSeq(SplitOn(pattern, "/"), LAMBDA part : part # <<>> /\ part # <<".">>)
        \o (IF pattern[Len(pattern)] = "/" THEN <<<<>>>> ELSE <<>>)

UNACCEPTABLE_PATTERN == Raise("ValueError", "Unacceptable pattern")

NON_RELATIVE_PATTERN == Raise("NotImplementedError", "Non-relative patterns are unsupported")

\* A pattern of "." and "/" alone has no path component
NO_PATTERN_PARTS == Raise("IndexError", "tuple index out of range")

NO_SELECTOR == Raise("AttributeError", "'_TerminatingSelector' object has no attribute 'select_from'")

INVALID_PATTERN == Raise("ValueError", "Invalid pattern")

PartsError(parts) ==
    IF parts = <<>> THEN NO_PATTERN_PARTS
    ELSE IF parts[1] = <<>> THEN NO_SELECTOR
    ELSE IF \E i \in 1..Len(parts) : HasDoubleStar(parts[i]) /\ parts[i] # <<"*", "*">>
    THEN INVALID_PATTERN
    ELSE None

\* What pdir.glob(pattern) raises, None when it raises nothing
GlobError(pattern) ==
    IF pattern = <<>> THEN UNACCEPTABLE_PATTERN
    ELSE IF Head(pattern) = "/" THEN NON_RELATIVE_PATTERN
    ELSE PartsError(PatternParts(pattern))

\* The file system is a tree of three levels: the root holds one directory,
\* TOP_DIR, which holds the directories ds side by side and no file, and these
\* hold the files. A glob stands at the path from the root that it has
\* reached: <<>>, <<TOP_DIR>> or <<TOP_DIR, d>>.
ROOT == <<>>

TOP_DIR == <<"t", "o", "p">>

\* The directories that the directory at here holds
SubDirs(ds, here) ==
    IF here = ROOT THEN {TOP_DIR} ELSE IF Len(here) = 1 THEN ds ELSE {}

\* here / "..": the directory above, the root being above itself
Parent(here) == IF here = ROOT THEN ROOT ELSE SubSeq(here, 1, Len(here) - 1)

RECURSIVE RecDirs(_, _)
\* The directory at here and every directory below it
RecDirs(ds, here) ==
    {here} \cup UNION {RecDirs(ds, Append(here, d)) : d \in SubDirs(ds, here)}

\* _is_wildcard_pattern(pat)
IsWildcard(part) == \E i \in 1..Len(part) : part[i] \in {"*", "?", "["}

\* The component selects the entry of this name
Selects(part, name) == IF IsWildcard(part) THEN GlobMatch(name, part) ELSE name = part

\* A path that glob found: the components that pdir.glob appended to pdir
\* (via, then name), and the directory the file lies in. pathlib keeps ".."
\* in a path as it is, so two paths to one file are two paths.
Found(dir, name, via) == [dir |-> dir, name |-> name, via |-> via]

RECURSIVE GlobParts(_, _, _, _, _)
\* The files the components find from where the glob stands, having come
\* there by the components via. The last component finds files and
\* directories, and cmd_merge keeps the files; a component before the last
\* finds directories only. ".." is a name like another, which is_dir() follows
\* to the directory above; "**" finds the directory itself and every
\* directory below it, each path once; a name or a wildcard finds the entries
\* of the directory that carry or match it; the empty component, after a
\* "/" at the end, finds the directory itself.
GlobParts(files, ds, here, via, parts) ==
    IF Tail(parts) = <<>>
    THEN IF Len(here) < 2 \/ Head(parts) \in {<<>>, <<"*", "*">>, <<".", ".">>}
         THEN {}
         ELSE {Found(f.dir, f.name, via) :
                  f \in {g \in DOMAIN files : g.dir = here[2] /\ Selects(Head(parts), g.name)}}
    ELSE IF Head(parts) = <<"*", "*">>
    THEN UNION {GlobParts(files, ds, there,
                          via \o SubSeq(there, Len(here) + 1, Len(there)), Tail(parts)) :
                   there \in RecDirs(ds, here)}
    ELSE IF Head(parts) = <<".", ".">>
    THEN GlobParts(files, ds, Parent(here), Append(via, Head(parts)), Tail(parts))
    ELSE UNION {GlobParts(files, ds, Append(here, d), Append(via, d), Tail(parts)) :
                   d \in {e \in SubDirs(ds, here) : Selects(Head(parts), e)}}

\* [f for f in pdir.glob(pattern) if f.is_file()], as a set: the paths are
\* all different. A pdir that is no directory holds nothing.
Glob(files, ds, parts_dir, pattern) ==
    IF GlobError(pattern) # None \/ parts_dir \notin ds THEN {}
    ELSE GlobParts(files, ds, <<TOP_DIR, parts_dir>>, <<>>, PatternParts(pattern))

\* The orders in which glob may enumerate the paths of the set S
Listings(S) ==
    {l \in [1..Cardinality(S) -> S] : \A i, j \in 1..Cardinality(S) : i # j => l[i] # l[j]}

\* cmd_merge(parts_dir, output_file, pattern), with listing the matching
\* files in the order the directory enumerates them
cmd_merge(files, ds, parts_dir, output_file, pattern, listing) ==
    IF GlobError(pattern) # None THEN Failed(GlobError(pattern), files, ds)
    ELSE IF listing = <<>> THEN Failed(NO_VTT_FILES, files, ds)
    ELSE MergeWrite(files, ds, output_file, SortEnriched(files, listing, 1, <<>>))

----------------------------------------------------------------------------
(* Compressor: cmd_compress                                                *)

\* The sentence-final marks beyond ASCII, each one character
IDEOGRAPHIC_STOP == "U+3002"

FULLWIDTH_QUESTION == "U+FF1F"

FULLWIDTH_EXCLAMATION == "U+FF01"

ELLIPSIS == "U+2026"

PUNCT_END ==
    {".", "?", "!", IDEOGRAPHIC_STOP, FULLWIDTH_QUESTION, FULLWIDTH_EXCLAMATION, ELLIPSIS}

\* The index of the first ">" of s at or after i, or 0
FirstClose(s, i) ==
    LET js == {j \in i..Len(s) : s[j] = ">"}
    IN  IF js = {} THEN 0 ELSE CHOOSE j \in js : \A k \in js : j <= k

\* TAG_RE matches at a: "<", one or more characters other than ">", and ">"
TagAt(s, a) == s[a] = "<" /\ FirstClose(s, a + 1) > a + 1

\* Character i lies in a match of TAG_RE. The matches taken from left to
\* right do not overlap, and a match that starts inside another one ends at the
\* same ">", so the characters removed are those of all matches.
InTag(s, i) == \E a \in 1..i : TagAt(s, a) /\ i <= FirstClose(s, a + 1)

\* TAG_RE.sub("", s)
RemoveTags(s) ==
    SelectSeq([i \in 1..Len(s) |-> IF InTag(s, i) THEN "DROP" ELSE s[i]], IsKept)

\* MULTI_SPACE_RE.sub(" ", s): of a run of whitespace the first character
\* becomes a space and the others go
CollapseSpaces(s) ==
    SelectSeq([i \in 1..Len(s) |->
                  IF ~IsSpace(s[i]) THEN s[i]
                  ELSE IF i > 1 /\ IsSpace(s[i - 1]) THEN "DROP"
                  ELSE SP],
              IsKept)

clean_text(s) == CollapseSpaces(RemoveTags(Strip(s)))

EndsIn(s) == s = <<>> \/ s[Len(s)] \in PUNCT_END

ends_sentence(s) == EndsIn(clean_text(s))

\* " ".join(parts)
RECURSIVE JoinSP(_)
JoinSP(parts) ==
    IF parts = <<>> THEN <<>>
    ELSE IF Len(parts) = 1 THEN parts[1]
    ELSE parts[1] \o <<SP>> \o JoinSP(Tail(parts))

\* "\n".join(parts)
RECURSIVE JoinNL(_)
JoinNL(parts) ==
    IF parts = <<>> THEN <<>>
    ELSE IF Len(parts) = 1 THEN parts[1]
    ELSE parts[1] \o <<NL>> \o JoinNL(Tail(parts))

StripAll(lines) == [i \in 1..Len(lines) |-> Strip(lines[i])]

NO_CUES_PARSED ==
    Raise("ValueError", "No cues parsed for compression. Is the input a valid VTT?")

RECURSIVE CompressFrom(_, _, _)
\* A timestamp line at i with both sides decoded (nothing catches a failure),
\* followed by n text lines
CompressCue(lines, i, cues, s_ms, e_ms, n) ==
    CompressFrom(lines, i + 1 + n + RunOf(lines, i + 1 + n, TRUE),
                 Append(cues, [start_ms |-> s_ms, end_ms |-> e_ms,
                               start_ts |-> ms_to_vtt(s_ms), end_ts |-> ms_to_vtt(e_ms),
                               txt |-> clean_text(
                                   JoinSP(StripAll(SubSeq(lines, i + 1, i + n))))]))

CompressDecoded(lines, i, cues, s, e) ==
    IF ~s.ok THEN s
    ELSE IF ~e.ok THEN e
    ELSE CompressCue(lines, i, cues, s.val, e.val, RunOf(lines, i + 1, FALSE))

CompressMatched(lines, i, cues, start_raw, end_tok) ==
    IF ~end_tok.ok THEN end_tok
    ELSE CompressDecoded(lines, i, cues, parse_ts_to_ms(start_raw),
                         parse_ts_to_ms(end_tok.val))

CompressMatch(lines, i, cues, m) ==
    IF ~m.matched THEN CompressFrom(lines, i + 1, cues)
    ELSE CompressMatched(lines, i, cues, Strip(m.g1), FirstToken(Strip(m.g2)))

CompressFrom(lines, i, cues) ==
    IF i > Len(lines) THEN Ok(cues)
    ELSE IF IsBlank(lines[i]) THEN CompressFrom(lines, i + 1, cues)
    ELSE CompressMatch(lines, i, cues, TS_LINE_RE_match(lines[i]))

\* The index of the first line after the header: leading blank lines, the
\* signature line if there is one, the lines up to a blank line, blank lines
CompressBodyAt(lines, i) ==
    LET j == IF i <= Len(lines) /\ IsSignature(lines[i]) THEN i + 1 ELSE i
        k == j + RunOf(lines, j, FALSE)
    IN  k + RunOf(lines, k, TRUE)

CompressParse(lines) ==
    CompressFrom(lines, CompressBodyAt(lines, 1 + RunOf(lines, 1, TRUE)), <<>>)

\* (start, end) < (start, end)
CueLess(x, y) ==
    IF x.start_ms # y.start_ms THEN x.start_ms < y.start_ms ELSE x.end_ms < y.end_ms

RECURSIVE InsertCue(_, _)
InsertCue(sorted, x) ==
    IF sorted = <<>> THEN <<x>>
    ELSE IF CueLess(x, Head(sorted)) THEN <<x>> \o sorted
    ELSE <<Head(sorted)>> \o InsertCue(Tail(sorted), x)

RECURSIVE SortCues(_, _, _)
\* cues.sort(key = lambda x: (x[0], x[1])): a stable sort
SortCues(cues, i, sorted) ==
    IF i > Len(cues) THEN sorted
    ELSE SortCues(cues, i + 1, InsertCue(sorted, cues[i]))

\* Fuses as it would be without the character budget
Fuses_no_budget(cur, nxt, gap_ms, max_chars) ==
    /\ nxt.start_ms - cur.end_ms <= gap_ms
    /\ ~ends_sentence(cur.txt)

\* Fuses as it would be without the test for the end of a sentence
Fuses_any_ending(cur, nxt, gap_ms, max_chars) ==
    /\ nxt.start_ms - cur.end_ms <= gap_ms
    /\ Len(cur.txt) + 1 + Len(nxt.txt) <= max_chars

Fuses(cur, nxt, gap_ms, max_chars) ==
    /\ nxt.start_ms - cur.end_ms <= gap_ms
    /\ ~ends_sentence(cur.txt)
    /\ Len(cur.txt) + 1 + Len(nxt.txt) <= max_chars

Fused(cur, nxt) ==
    [start_ms |-> cur.start_ms, end_ms |-> Max(cur.end_ms, nxt.end_ms),
     start_ts |-> cur.start_ts, end_ts |-> ms_to_vtt(Max(cur.end_ms, nxt.end_ms)),
     txt |-> clean_text(cur.txt \o <<SP>> \o nxt.txt)]

MergedCue(cur) == [start_ts |-> cur.start_ts, end_ts |-> cur.end_ts, txt |-> cur.txt]

RECURSIVE FoldCues(_, _, _, _, _, _)
\* The loop over cues[1:] with its accumulator cur, and the final flush
FoldCues(cues, i, cur, gap_ms, max_chars, merged) ==
    IF i > Len(cues) THEN Append(merged, MergedCue(cur))
    ELSE IF Fuses(cur, cues[i], gap_ms, max_chars)
    THEN FoldCues(cues, i + 1, Fused(cur, cues[i]), gap_ms, max_chars, merged)
    ELSE FoldCues(cues, i + 1, cues[i], gap_ms, max_chars, Append(merged, MergedCue(cur)))

RECURSIVE CompressOutLines(_, _)
CompressOutLines(merged, i) ==
    IF i > Len(merged) THEN <<>>
    ELSE <<merged[i].start_ts \o ARROW \o merged[i].end_ts, merged[i].txt, <<>>>>
             \o CompressOutLines(merged, i + 1)

CompressWrite(files, ds, out_file, sorted, merged) ==
    IF out_file.dir \notin ds THEN Failed(FILE_NOT_FOUND, files, ds)
    ELSE Done(WriteFile(files, out_file,
                        Strip(JoinNL(<<WEBVTT, <<>>>> \o CompressOutLines(merged, 1)))
                            \o <<NL>>),
              ds, [cues |-> sorted, merged |-> merged, out_file |-> out_file])

CompressSorted(files, ds, out_file, gap_ms, max_chars, sorted) ==
    CompressWrite(files, ds, out_file, sorted,
                  FoldCues(sorted, 2, sorted[1], gap_ms, max_chars, <<>>))

CompressCues(files, ds, out_file, gap_ms, max_chars, cues) ==
    IF ~cues.ok THEN Failed(cues, files, ds)
    ELSE IF cues.val = <<>> THEN Failed(NO_CUES_PARSED, files, ds)
    ELSE CompressSorted(files, ds, out_file, gap_ms, max_chars,
                        SortCues(cues.val, 1, <<>>))

\* cmd_compress(in_file, out_file, gap_ms, max_chars)
cmd_compress(files, ds, in_path, out_file, gap_ms, max_chars) ==
    IF ~Exists(files, in_path) THEN Failed(FILE_NOT_FOUND, files, ds)
    ELSE CompressCues(files, ds, out_file, gap_ms, max_chars,
                      CompressParse(SplitOn(NormalizeNewlines(DecodeUtf8Sig(files[in_path])),
                                            NL)))

----------------------------------------------------------------------------
(* Composite commands                                                      *)

S_compressed == <<"_", "c", "o", "m", "p", "r", "e", "s", "s", "e", "d">>

S_tmp_merged == <<"_", "t", "m", "p", "_", "m", "e", "r", "g", "e", "d", ".", "v", "t", "t">>

\* in_path.with_name(f"{in_path.stem}<tag>{in_path.suffix}")
WithTag(p, tag) == Path(p.dir, stem(p.name) \o tag \o suffix(p.name))

\* The outcome r of the last sub-step run, with the sub-steps that ran
Composite(r, steps) == [r EXCEPT !.out = [steps |-> steps, last |-> r.out]]

\* try: p.unlink() ... except Exception: pass
UnlinkQuietly(files, p) == IF Exists(files, p) THEN Unlink(files, p) ELSE files

CleanSplitFixed(files, ds, in_path, out_dir, minutes, rebase, start_at_zero, fx) ==
    IF ~fx.ok THEN Composite(Failed(fx, files, ds), <<"fix">>)
    ELSE Composite(cmd_split(WriteFile(files, WithTag(in_path, S_fixed),
                                       write_text_lines(fx.val.fixed_lines)),
                             ds, WithTag(in_path, S_fixed), out_dir, minutes, rebase,
                             start_at_zero),
                   <<"fix", "split">>)

\* cmd_cleansplit(in_file, out_dir, minutes, rebase, start_at_zero)
cmd_cleansplit(files, ds, in_path, out_dir, minutes, rebase, start_at_zero) ==
    IF ~Exists(files, in_path) THEN Composite(Failed(FILE_NOT_FOUND, files, ds), <<"fix">>)
    ELSE CleanSplitFixed(files, ds, in_path, out_dir, minutes, rebase, start_at_zero,
                         fix_vtt_timestamps(read_text_lines(files[in_path])))

MergeCompressDone(tmp_merged, c) ==
    IF c.status # "ok" THEN Composite(c, <<"merge", "compress">>)
    ELSE Composite([c EXCEPT !.fs = UnlinkQuietly(c.fs, tmp_merged)],
                   <<"merge", "compress", "unlink">>)

MergeCompressMerged(tmp_merged, out_file, gap_ms, max_chars, m) ==
    IF m.status # "ok" THEN Composite(m, <<"merge">>)
    ELSE MergeCompressDone(tmp_merged,
                           cmd_compress(m.fs, m.dirs, tmp_merged, out_file, gap_ms, max_chars))

\* cmd_mergecompress(parts_dir, pattern, out_file, gap_ms, max_chars)
cmd_mergecompress(files, ds, parts_dir, pattern, out_file, gap_ms, max_chars, listing) ==
    MergeCompressMerged(Path(out_file.dir, stem(out_file.name) \o S_tmp_merged), out_file,
                        gap_ms, max_chars,
                        cmd_merge(files, ds, parts_dir,
                                  Path(out_file.dir, stem(out_file.name) \o S_tmp_merged),
                                  pattern, listing))

\* try: p.unlink(); q.unlink() ... except Exception: pass: when the first
\* unlink raises, the second is not tried
UnlinkBothQuietly(files, p, q) ==
    IF ~Exists(files, p) THEN files
    ELSE IF ~Exists(Unlink(files, p), q) THEN Unlink(files, p)
    ELSE Unlink(Unlink(files, p), q)

CleanCompressSplitDone(in_path, sp) ==
    IF sp.status # "ok" THEN Composite(sp, <<"fix", "compress", "split">>)
    ELSE Composite([sp EXCEPT !.fs = UnlinkBothQuietly(sp.fs, WithTag(in_path, S_fixed),
                                                       WithTag(in_path, S_compressed))],
                   <<"fix", "compress", "split", "unlink">>)

CleanCompressSplitCompressed(in_path, out_dir, minutes, rebase, start_at_zero, c) ==
    IF c.status # "ok" THEN Composite(c, <<"fix", "compress">>)
    ELSE CleanCompressSplitDone(in_path,
                                cmd_split(c.fs, c.dirs, WithTag(in_path, S_compressed),
                                          out_dir, minutes, rebase, start_at_zero))

CleanCompressSplitFixed(files, ds, in_path, out_dir, minutes, gap_ms, max_chars, rebase, start_at_zero, fx) ==
    IF ~fx.ok THEN Composite(Failed(fx, files, ds), <<"fix">>)
    ELSE CleanCompressSplitCompressed(
             in_path, out_dir, minutes, rebase, start_at_zero,
             cmd_compress(WriteFile(files, WithTag(in_path, S_fixed),
                                    write_text_lines(fx.val.fixed_lines)),
                          ds, WithTag(in_path, S_fixed), WithTag(in_path, S_compressed),
                          gap_ms, max_chars))

\* Path(None)
NO_PATH_OF_NONE ==
    Raise("TypeError", "expected str, bytes or os.PathLike object, not NoneType")

\* cmd_cleancompresssplit(in_file, out_dir, minutes, gap_ms, max_chars, rebase,
\* start_at_zero)
cmd_cleancompresssplit(files, ds, in_path, out_dir, minutes, gap_ms, max_chars, rebase, start_at_zero) ==
    IF out_dir = NO_OUT_DIR THEN Composite(Failed(NO_PATH_OF_NONE, files, ds), <<"fix">>)
    ELSE IF ~Exists(files, in_path) THEN Composite(Failed(FILE_NOT_FOUND, files, ds), <<"fix">>)
    ELSE CleanCompressSplitFixed(files, ds, in_path, out_dir, minutes, gap_ms, max_chars,
                                 rebase, start_at_zero,
                                 fix_vtt_timestamps(read_text_lines(files[in_path])))

----------------------------------------------------------------------------
(* Codec specification: encode a millisecond value, decode the text        *)

MaxHours == 123

HourPool == {0, 1, 99, 100, MaxHours}

MsPool ==
    {h * 3600000 + m * 60000 + s * 1000 + f :
        h \in HourPool, m \in {0, 59}, s \in {0, 7, 59}, f \in {0, 5, 38, 999}}
    \cup {0 - 1, 0 - 61001}

CodecInit ==
    /\ pc = "codec"
    /\ ts_ms \in MsPool
    /\ ts_text = None
    /\ ts_back = None
    /\ fs = <<>>
    /\ dirs = {}
    /\ results = <<>>

Encode ==
    /\ pc = "codec"
    /\ ts_text = None
    /\ ts_text' = ms_to_vtt(ts_ms)
    /\ UNCHANGED <<pc, ts_ms, ts_back, file_vars>>

Decode ==
    /\ pc \in {"codec", "decode"}
    /\ pc = "codec" => ts_text # None
    /\ ts_back = None
    /\ ts_back' = parse_ts_to_ms(ts_text)
    /\ UNCHANGED <<pc, ts_ms, ts_text, file_vars>>

CodecNext == Encode \/ Decode

SpecCodec == CodecInit /\ [][CodecNext]_vars

----------------------------------------------------------------------------
(* Inputs of the file commands                                             *)

N_a ==
    <<"a", ".", "v", "t", "t">>

\* The directories are named by their texts and lie side by side in one
\* directory, TOP_DIR, which holds no file
IN_DIR == <<"i", "n">>

\* All sequences of at most n members of the set S
SeqsUpTo(S, n) == UNION {[1..k -> S] : k \in 0..n}

Outcome(cmd, args, r) ==
    [cmd |-> cmd, args |-> args, status |-> r.status, msg |-> r.msg, out |-> r.out]

\* The command's effect on the state: the files and directories it leaves,
\* and its outcome appended to the record of the commands run
Ran(cmd, args, r) ==
    /\ fs' = r.fs
    /\ dirs' = r.dirs
    /\ results' = Append(results, Outcome(cmd, args, r))

NoCodec ==
    /\ ts_ms = 0
    /\ ts_text = None
    /\ ts_back = None

----------------------------------------------------------------------------
(* Fixer specification: clean --fix and clean (check only) on a document   *)
(* and on the documents the fixer wrote                                    *)

L_webvtt ==
    <<"W", "E", "B", "V", "T", "T", "\n">>

L_blank ==
    <<"\n">>

L_swap ==
    <<"0", ":", "0", "5", " ", "-", "-", ">", " ", "0", ":", "0", "2", " ",
      "x", "\n">>

L_secs ==
    <<"1", ".", "5", " ", "-", "-", ">", " ", "2", "\n">>

L_canon ==
    <<"0", "0", ":", "0", "0", ":", "0", "1", ".", "0", "0", "0", " ", "-",
      "-", ">", " ", "0", "0", ":", "0", "0", ":", "0", "2", ".", "0", "0",
      "0", "\n">>

L_badstart ==
    <<"a", " ", "-", "-", ">", " ", "0", ":", "0", "1", "\n">>

L_text ==
    <<"H", "i", "\n">>

L_noend ==
    <<"0", ":", "0", "1", " ", "-", "-", ">", " ", "\n">>

L_open ==
    <<"0", ":", "0", "7", " ", "-", "-", ">", "0", ":", "0", "3">>

L_neg ==
    <<"-", "1", ":", "0", "0", " ", "-", "-", ">", " ", "0", ":", "0", "1",
      ",", "5", " ", "-", "-", ">", " ", "9", "\n">>

L_align ==
    <<"0", "5", ":", "0", "0", ".", "0", "0", "0", " ", "-", "-", ">", " ",
      "0", "2", ":", "0", "0", ".", "0", "0", "0", " ", "a", "l", "i", "g",
      "n", ":", "s", "t", "a", "r", "t", "\n">>

\* A byte-order mark: at the start of a file the decoder drops it, anywhere
\* else it is a character of the line it stands in
L_bom ==
    <<BOM>>

FixLinePool ==
    {L_webvtt, L_blank, L_swap, L_secs, L_canon, L_badstart, L_text, L_noend,
     L_open, L_neg, L_bom, L_align}

MaxFixLines == 3

MaxCleanRuns == 2

FixDocs == {Concat(d) : d \in SeqsUpTo(FixLinePool, MaxFixLines)}

FixInit ==
    /\ pc = "fix"
    /\ NoCodec
    /\ \E doc \in FixDocs : fs = (Path(IN_DIR, N_a) :> doc)
    /\ dirs = {IN_DIR}
    /\ results = <<>>

CleanCheck ==
    /\ pc \in {"fix", "tools", "check"}
    /\ Len(results) < MaxCleanRuns
    /\ \E p \in DOMAIN fs :
         Ran("clean", [in_path |-> p, fix |-> FALSE], cmd_clean(fs, dirs, p, FALSE))
    /\ UNCHANGED <<pc, codec_vars>>

CleanFix ==
    /\ pc \in {"fix", "tools"}
    /\ Len(results) < MaxCleanRuns
    /\ \E p \in DOMAIN fs :
         Ran("clean", [in_path |-> p, fix |-> TRUE], cmd_clean(fs, dirs, p, TRUE))
    /\ UNCHANGED <<pc, codec_vars>>

\* The outcome of a call of fix_vtt_timestamps (no file is touched)
Returned(r) ==
    IF r.ok THEN [status |-> "ok", msg |-> "", out |-> r.val]
    ELSE [status |-> r.err, msg |-> r.msg, out |-> <<>>]

\* fix_vtt_timestamps on the lines an earlier run of the fixer returned
Refix ==
    /\ pc = "fix"
    /\ Len(results) < MaxCleanRuns
    /\ \E j \in 1..Len(results) :
         /\ results[j].status = "ok"
         /\ results[j].cmd = "fix_vtt_timestamps" \/ results[j].args.fix
         /\ results' = Append(results,
                Outcome("fix_vtt_timestamps", [of |-> j, fix |-> TRUE],
                        Returned(fix_vtt_timestamps(results[j].out.fixed_lines))))
    /\ UNCHANGED <<pc, codec_vars, fs, dirs>>

FixNext == CleanCheck \/ CleanFix \/ Refix

SpecFix == FixInit /\ [][FixNext]_vars

----------------------------------------------------------------------------
(* Commands: split, merge and compress run on a document and on the files  *)
(* the commands before them wrote                                          *)

N_merged ==
    <<"m", "e", "r", "g", "e", "d", ".", "v", "t", "t">>

N_c ==
    <<"c", ".", "v", "t", "t">>

P_vtt ==
    <<"*", ".", "v", "t", "t">>

P_srt ==
    <<"*", ".", "s", "r", "t">>

\* The parts of the directory a split may make, named from a directory beside it
P_up_vtt ==
    <<".", ".", "/", "n", "e", "w", "/", "*", ".", "v", "t", "t">>

H_sig ==
    <<"W", "E", "B", "V", "T", "T", "\n", "\n">>

B_cue ==
    <<"0", ":", "0", "1", " ", "-", "-", ">", " ", "0", ":", "0", "2",
      "\n", "H", "i", "\n", "\n">>

B_rev ==
    <<"0", ":", "0", "5", " ", "-", "-", ">", " ", "0", ":", "0", "2",
      "\n", "y", "o", "\n", "\n">>

B_badstart ==
    <<"x", "x", ":", "y", "y", " ", "-", "-", ">", " ", "0", ":", "0", "1",
      "\n", "b", "a", "d", "\n", "\n">>

B_badend ==
    <<"0", ":", "0", "3", " ", "-", "-", ">", " ", "z", "z", "\n", "q",
      "\n", "\n">>

B_noend ==
    <<"0", ":", "0", "9", " ", "-", "-", ">", " ", "\n", "\n">>

B_note ==
    <<"n", "o", "t", "e", "\n", "\n">>

OUT_DIR == <<"o", "u", "t">>

NEW_DIR == <<"n", "e", "w">>

MaxRuns == 2

\* The documents made of one of the headers and at most n of the blocks
DocsOf(headers, blocks, n) ==
    {h \o Concat(bs) : h \in headers, bs \in SeqsUpTo(blocks, n)}

MaxToolBlocks == 2

ToolDocs ==
    DocsOf({<<>>, H_sig}, {B_cue, B_rev, B_badstart, B_badend, B_noend, B_note},
           MaxToolBlocks)

\* The chunk lengths, gap thresholds and character budgets the runs draw from
MinutesPool == IF pc = "split" THEN {1, 10} ELSE {1}

GapPool == IF pc = "compress" THEN {0, 500} ELSE {500}

MaxCharsPool == IF pc = "compress" THEN {5, 12, 130} ELSE {130}

ToolInit ==
    /\ pc = "tools"
    /\ NoCodec
    /\ \E doc \in ToolDocs : fs = (Path(IN_DIR, N_a) :> doc)
    /\ dirs = {IN_DIR, OUT_DIR}
    /\ results = <<>>

Split ==
    /\ Len(results) < MaxRuns
    /\ \E p \in DOMAIN fs, out_dir \in {NO_OUT_DIR, NEW_DIR}, minutes \in MinutesPool,
          rebase \in BOOLEAN, start_at_zero \in BOOLEAN :
         Ran("split",
             [in_path |-> p, out_dir |-> out_dir, minutes |-> minutes,
              rebase |-> rebase, start_at_zero |-> start_at_zero],
             cmd_split(fs, dirs, p, out_dir, minutes, rebase, start_at_zero))
    /\ UNCHANGED <<pc, codec_vars>>

Merge ==
    /\ Len(results) < MaxRuns
    /\ \E parts_dir \in dirs, pattern \in {P_vtt, P_srt, P_up_vtt} :
         \E listing \in Listings(Glob(fs, dirs, parts_dir, pattern)) :
            Ran("merge",
                [parts_dir |-> parts_dir, pattern |-> pattern, listing |-> listing,
                 output_file |-> Path(OUT_DIR, N_merged)],
                cmd_merge(fs, dirs, parts_dir, Path(OUT_DIR, N_merged), pattern, listing))
    /\ UNCHANGED <<pc, codec_vars>>

Compress ==
    /\ Len(results) < MaxRuns
    /\ \E p \in DOMAIN fs, gap_ms \in GapPool, max_chars \in MaxCharsPool :
         Ran("compress",
             [in_path |-> p, out_file |-> Path(OUT_DIR, N_c), gap_ms |-> gap_ms,
              max_chars |-> max_chars],
             cmd_compress(fs, dirs, p, Path(OUT_DIR, N_c), gap_ms, max_chars))
    /\ UNCHANGED <<pc, codec_vars>>

ToolNext == CleanCheck \/ CleanFix \/ Split \/ Merge \/ Compress

SpecTools == ToolInit /\ [][ToolNext]_vars

----------------------------------------------------------------------------
(* Composite commands on a document                                        *)

ComboInit ==
    /\ pc = "combo"
    /\ NoCodec
    /\ \E doc \in ToolDocs : fs = (Path(IN_DIR, N_a) :> doc)
    /\ dirs = {IN_DIR, OUT_DIR}
    /\ results = <<>>

CleanSplit ==
    /\ results = <<>>
    /\ \E p \in DOMAIN fs, out_dir \in {OUT_DIR, NEW_DIR}, minutes \in MinutesPool,
          rebase \in BOOLEAN, start_at_zero \in BOOLEAN :
         Ran("cleansplit",
             [in_path |-> p, out_dir |-> out_dir, minutes |-> minutes,
              rebase |-> rebase, start_at_zero |-> start_at_zero],
             cmd_cleansplit(fs, dirs, p, out_dir, minutes, rebase, start_at_zero))
    /\ UNCHANGED <<pc, codec_vars>>

MergeCompress ==
    /\ results = <<>>
    /\ \E parts_dir \in dirs, pattern \in {P_vtt, P_srt}, gap_ms \in GapPool,
          max_chars \in MaxCharsPool :
         \E listing \in Listings(Glob(fs, dirs, parts_dir, pattern)) :
            Ran("mergecompress",
                [parts_dir |-> parts_dir, pattern |-> pattern, listing |-> listing,
                 out_file |-> Path(OUT_DIR, N_c), gap_ms |-> gap_ms,
                 max_chars |-> max_chars],
                cmd_mergecompress(fs, dirs, parts_dir, pattern, Path(OUT_DIR, N_c), gap_ms,
                                  max_chars, listing))
    /\ UNCHANGED <<pc, codec_vars>>

CleanCompressSplit ==
    /\ results = <<>>
    /\ \E p \in DOMAIN fs, out_dir \in {OUT_DIR, NEW_DIR}, minutes \in MinutesPool,
          gap_ms \in GapPool, max_chars \in MaxCharsPool, rebase \in BOOLEAN,
          start_at_zero \in BOOLEAN :
         Ran("cleancompresssplit",
             [in_path |-> p, out_dir |-> out_dir, minutes |-> minutes, gap_ms |-> gap_ms,
              max_chars |-> max_chars, rebase |-> rebase, start_at_zero |-> start_at_zero],
             cmd_cleancompresssplit(fs, dirs, p, out_dir, minutes, gap_ms, max_chars,
                                    rebase, start_at_zero))
    /\ UNCHANGED <<pc, codec_vars>>

ComboNext == CleanSplit \/ MergeCompress \/ CleanCompressSplit

SpecCombo == ComboInit /\ [][ComboNext]_vars

----------------------------------------------------------------------------
(* Merger specification: merge of a directory of documents                 *)

N_first ==
    <<"f", "i", "r", "s", "t", ".", "v", "t", "t">>

N_second ==
    <<"s", "e", "c", "o", "n", "d", ".", "v", "t", "t">>

N_third ==
    <<"t", "h", "i", "r", "d", ".", "v", "t", "t">>

N_x_part2 ==
    <<"x", "_", "p", "a", "r", "t", "2", ".", "v", "t", "t">>

N_X_part10 ==
    <<"X", "_", "p", "a", "r", "t", "1", "0", ".", "v", "t", "t">>

D_20 ==
    <<"W", "E", "B", "V", "T", "T", "\n", "\n", "0", ":", "2", "0", " ",
      "-", "-", ">", " ", "0", ":", "2", "1", "\n", "A", "\n">>

D_5 ==
    <<"W", "E", "B", "V", "T", "T", "\n", "\n", "0", ":", "0", "5", " ",
      "-", "-", ">", " ", "0", ":", "0", "6", "\n", "B", "\n", "\n">>

D_15 ==
    <<"W", "E", "B", "V", "T", "T", "\n", "\n", "0", ":", "1", "5", " ",
      "-", "-", ">", " ", "0", ":", "1", "6", "\n", "C">>

D_nocue ==
    <<"W", "E", "B", "V", "T", "T", "\n", "\n", "n", "o", "t", "e", "\n">>

D_badend ==
    <<"W", "E", "B", "V", "T", "T", "\n", "\n", "0", ":", "0", "9", " ",
      "-", "-", ">", " ", "x", "x", "\n", "\n", "0", ":", "0", "1", " ",
      "-", "-", ">", " ", "0", ":", "0", "2", "\n", "h", "i", "\n">>

PARTS_DIR == <<"p", "a", "r", "t", "s">>

MergeNames == {N_first, N_second, N_third, N_x_part2, N_X_part10}

MergeDocs == {D_20, D_5, D_15, D_nocue, D_badend}

MaxMergeFiles == 3

\* The directories of at most MaxMergeFiles documents
MergeDirs ==
    UNION {[{Path(PARTS_DIR, n) : n \in names} -> MergeDocs] :
              names \in {ns \in SUBSET MergeNames : Cardinality(ns) <= MaxMergeFiles}}

MergeInit ==
    /\ pc = "merge"
    /\ NoCodec
    /\ fs \in MergeDirs
    /\ dirs = {PARTS_DIR, OUT_DIR}
    /\ results = <<>>

MergeDir ==
    /\ results = <<>>
    /\ \E listing \in Listings(Glob(fs, dirs, PARTS_DIR, P_vtt)) :
         Ran("merge",
             [parts_dir |-> PARTS_DIR, pattern |-> P_vtt, listing |-> listing,
              output_file |-> Path(OUT_DIR, N_merged)],
             cmd_merge(fs, dirs, PARTS_DIR, Path(OUT_DIR, N_merged), P_vtt, listing))
    /\ UNCHANGED <<pc, codec_vars>>

MergeNext == MergeDir

SpecMerge == MergeInit /\ [][MergeNext]_vars

----------------------------------------------------------------------------
(* Chunker specification: split of a document                              *)

B_first20 ==
    <<"0", "0", ":", "0", "0", ":", "0", "0", ".", "0", "0", "0", " ", "-",
      "-", ">", " ", "0", "0", ":", "0", "0", ":", "0", "1", ".", "0", "0",
      "0", "\n", "A", "\n", "\n", "0", "0", ":", "0", "9", ":", "5", "9",
      ".", "9", "9", "9", " ", "-", "-", ">", " ", "0", "0", ":", "1", "0",
      ":", "0", "0", ".", "0", "0", "0", "\n", "B", "\n", "\n">>

B_second20 ==
    <<"0", "0", ":", "1", "0", ":", "0", "0", ".", "0", "0", "0", " ", "-",
      "-", ">", " ", "0", "0", ":", "1", "0", ":", "0", "1", ".", "0", "0",
      "0", "\n", "C", "\n", "\n", "0", "0", ":", "1", "9", ":", "5", "9",
      ".", "9", "9", "9", " ", "-", "-", ">", " ", "0", "0", ":", "2", "0",
      ":", "0", "0", ".", "0", "0", "0", "\n", "D", "\n", "\n">>

B_late ==
    <<"1", ":", "0", "5", " ", "-", "-", ">", " ", "1", ":", "0", "6", " ",
      "a", "l", "i", "g", "n", ":", "l", "e", "f", "t", "\n", "E", "\n",
      "\n">>

B_neg ==
    <<"-", "1", ":", "0", "0", " ", "-", "-", ">", " ", "0", ":", "0", "1",
      "\n", "F", "\n", "\n">>

\* A timestamp line with a blank before the line terminator
B_trail ==
    <<"0", ":", "0", "7", " ", "-", "-", ">", " ", "0", ":", "0", "8", " ",
      "\n", "G", "\n", "\n">>

MaxSplitBlocks == 2

SplitDocs ==
    DocsOf({<<>>, H_sig}, {B_first20, B_second20, B_late, B_neg, B_badstart, B_trail},
           MaxSplitBlocks)

SplitInit ==
    /\ pc = "split"
    /\ NoCodec
    /\ \E doc \in SplitDocs : fs = (Path(IN_DIR, N_a) :> doc)
    /\ dirs = {IN_DIR, OUT_DIR}
    /\ results = <<>>

SplitDoc ==
    /\ results = <<>>
    /\ \E out_dir \in {NO_OUT_DIR, NEW_DIR}, minutes \in MinutesPool, rebase \in BOOLEAN,
          start_at_zero \in BOOLEAN :
         Ran("split",
             [in_path |-> Path(IN_DIR, N_a), out_dir |-> out_dir, minutes |-> minutes,
              rebase |-> rebase, start_at_zero |-> start_at_zero],
             cmd_split(fs, dirs, Path(IN_DIR, N_a), out_dir, minutes, rebase,
                       start_at_zero))
    /\ UNCHANGED <<pc, codec_vars>>

SplitNext == SplitDoc

SpecSplit == SplitInit /\ [][SplitNext]_vars

----------------------------------------------------------------------------
(* Compressor specification: compress of a document                        *)

B_hello ==
    <<"0", ":", "0", "1", " ", "-", "-", ">", " ", "0", ":", "0", "2",
      "\n", "H", "e", "l", "l", "o", "\n", "\n">>

B_world ==
    <<"0", ":", "0", "2", ".", "1", " ", "-", "-", ">", " ", "0", ":", "0",
      "3", "\n", "w", "o", "r", "l", "d", ".", "\n", "\n">>

B_next ==
    <<"0", ":", "0", "3", " ", "-", "-", ">", " ", "0", ":", "0", "4",
      "\n", "<", "i", ">", "n", "e", "x", "t", "<", "/", "i", ">", " ",
      " ", "o", "n", "e", "\n", "\n">>

B_empty ==
    <<"0", ":", "0", "2", " ", "-", "-", ">", " ", "0", ":", "0", "2", ".",
      "5", "\n", "\n">>

\* Two cues with a "<" in the first and a ">" in the second
B_lt ==
    <<"0", ":", "0", "1", " ", "-", "-", ">", " ", "0", ":", "0", "2",
      "\n", "i", "f", " ", "a", " ", "<", "b", "\n", "\n">>

B_gt ==
    <<"0", ":", "0", "2", " ", "-", "-", ">", " ", "0", ":", "0", "3",
      "\n", "t", "h", "e", "n", " ", "c", ">", " ", "d", "\n", "\n">>

MaxCompressBlocks == 3

CompressDocs ==
    DocsOf({H_sig}, {B_hello, B_world, B_next, B_empty, B_cue, B_lt, B_gt},
           MaxCompressBlocks)

CompressInit ==
    /\ pc = "compress"
    /\ NoCodec
    /\ \E doc \in CompressDocs : fs = (Path(IN_DIR, N_a) :> doc)
    /\ dirs = {IN_DIR, OUT_DIR}
    /\ results = <<>>

CompressDoc ==
    /\ results = <<>>
    /\ \E gap_ms \in GapPool, max_chars \in MaxCharsPool :
         Ran("compress",
             [in_path |-> Path(IN_DIR, N_a), out_file |-> Path(OUT_DIR, N_c),
              gap_ms |-> gap_ms, max_chars |-> max_chars],
             cmd_compress(fs, dirs, Path(IN_DIR, N_a), Path(OUT_DIR, N_c), gap_ms,
                          max_chars))
    /\ UNCHANGED <<pc, codec_vars>>

CompressNext == CompressDoc

SpecCompress == CompressInit /\ [][CompressNext]_vars

----------------------------------------------------------------------------
(* Checker specification: clean (check only) on a document of cue lines    *)

T_0 ==
    <<"0", "0", ":", "0", "0", ".", "0", "0", "0", " ", "-", "-", ">", " ",
      "0", "0", ":", "0", "1", ".", "0", "0", "0", "\n">>

T_5 ==
    <<"0", ":", "0", "5", " ", "-", "-", ">", " ", "0", ":", "0", "9", "\n">>

T_3 ==
    <<"0", ":", "0", "3", " ", "-", "-", ">", " ", "0", ":", "0", "4", "\n">>

T_rev ==
    <<"0", ":", "0", "7", " ", "-", "-", ">", " ", "0", ":", "0", "2", "\n">>

T_badend ==
    <<"0", ":", "0", "8", " ", "-", "-", ">", " ", "x", "\n">>

CheckLinePool == {T_0, T_5, T_3, T_rev, T_badend, L_badstart, L_text}

MaxCheckLines == 4

CheckDocs == {Concat(d) : d \in SeqsUpTo(CheckLinePool, MaxCheckLines)}

CheckInit ==
    /\ pc = "check"
    /\ NoCodec
    /\ \E doc \in CheckDocs : fs = (Path(IN_DIR, N_a) :> doc)
    /\ dirs = {IN_DIR}
    /\ results = <<>>

CheckNext == CleanCheck

SpecCheck == CheckInit /\ [][CheckNext]_vars

----------------------------------------------------------------------------
(* Decoder specification: parse_ts_to_ms on a timestamp text               *)

SegHours ==
    {<<>>,
     <<"1", ":">>,
     <<"0", "0", ":">>,
     <<"1", "0", "0", ":">>}

SegMinutes ==
    {<<"0", "2">>,
     <<"5", "5">>,
     <<"0">>}

SegSeconds ==
    {<<"0", "3">>,
     <<"5", "6">>,
     <<"7">>}

SegFractions ==
    {<<>>,
     <<".", "5">>,
     <<",", "5", "0", "0">>,
     <<".", "0", "3", ".", "8", "0", "0">>,
     <<".", "0", "3", "8", "5">>,
     <<".">>,
     <<".", "x">>,
     <<".", "0", "3">>}

\* [hours:]minutes:seconds[.fraction]
ColonTexts ==
    {h \o m \o <<":">> \o s \o f :
        h \in SegHours, m \in SegMinutes, s \in SegSeconds, f \in SegFractions}

PureWholes ==
    {<<"0">>,
     <<"1">>,
     <<"4", "6">>}

PureFractions ==
    {<<>>,
     <<".", "5">>,
     <<".", "5", "5", "0">>,
     <<",", "5", "5", "0">>,
     <<".", "0", "0", "1">>,
     <<".", "0", "0", "0", "9">>,
     <<".", "0", "0", "1", "5">>,
     <<".", "3", "5">>}

\* seconds[.fraction]
PureTexts == {w \o f : w \in PureWholes, f \in PureFractions}

OddTexts ==
    {<<>>,
     <<"x">>,
     <<"1", ":", "2", ":", "3", ":", "4">>,
     <<"-", "1", ":", "0", "0">>,
     <<" ", "1", ":", "0", "2", ":", "0", "3", " ">>,
     <<"1", ":", "0", "2", ":">>,
     <<"1", ":", "x", ":", "0", "3">>}

DecodeTexts == ColonTexts \cup PureTexts \cup OddTexts

DecodeInit ==
    /\ pc = "decode"
    /\ ts_ms = 0
    /\ ts_text \in DecodeTexts
    /\ ts_back = None
    /\ fs = <<>>
    /\ dirs = {}
    /\ results = <<>>

DecodeNext == Decode

SpecDecode == DecodeInit /\ [][DecodeNext]_vars

----------------------------------------------------------------------------
(* Part-number key specification: part_number_from_name over file names    *)
(* put together from a prefix, a token, separators, digits and a suffix    *)

KeyPrefixes == {<<>>, <<"x">>, <<"x","_">>, <<"a","1"," ">>, <<"_">>}

KeyTokens == {<<"p","a","r","t">>, <<"P","a","r","t">>, <<"P","A","R","T">>, <<"p","r","t">>}

KeySeparators == {<<>>, <<" ">>, <<"_">>, <<"-">>, <<"0">>}

KeyDigits == {<<>>, <<"2">>, <<"0","2">>, <<"1","0">>, <<"1","0","0","0","0","0","0","0","0","0">>, <<"2","0","0","0","0","0","0","0","0","0">>}

KeySuffixes == {<<>>, <<"_","p","a","r","t","7">>, <<"b","3">>}

KeyNames ==
    {p \o t \o s \o d \o x \o S_vtt :
        p \in KeyPrefixes, t \in KeyTokens, s \in KeySeparators, d \in KeyDigits,
        x \in KeySuffixes}

KeyInit ==
    /\ pc = "key"
    /\ ts_ms = 0
    /\ ts_text \in KeyNames
    /\ ts_back = None
    /\ fs = <<>>
    /\ dirs = {}
    /\ results = <<>>

\* part_number_from_name(Path(name))
PartKey ==
    /\ pc = "key"
    /\ ts_back = None
    /\ ts_back' = Ok(part_number_from_name(ts_text))
    /\ UNCHANGED <<pc, ts_ms, ts_text, file_vars>>

KeyNext == PartKey

SpecKey == KeyInit /\ [][KeyNext]_vars

----------------------------------------------------------------------------
(* Round-trip specification: split of a document, then merge of the parts  *)

\* A cue whose text line holds a form feed
B_ff ==
    <<"0", ":", "3", "0", " ", "-", "-", ">", " ", "0", ":", "3", "1",
      "\n", "E", "\f", "F", "\n", "\n">>

\* A cue whose text line ends in a blank, at the end of the document
B_sp ==
    <<"0", ":", "4", "0", " ", "-", "-", ">", " ", "0", ":", "4", "1",
      "\n", "K", " ", "\n">>

MaxRoundBlocks == 2

RoundDocs == DocsOf({H_sig}, {B_first20, B_late, B_trail, B_ff, B_sp}, MaxRoundBlocks)

RoundInit ==
    /\ pc = "round"
    /\ NoCodec
    /\ \E doc \in RoundDocs : fs = (Path(IN_DIR, N_a) :> doc)
    /\ dirs = {IN_DIR, OUT_DIR}
    /\ results = <<>>

\* split --out-dir new
RoundSplit ==
    /\ pc = "round"
    /\ results = <<>>
    /\ \E minutes \in {1, 10}, rebase \in BOOLEAN, start_at_zero \in BOOLEAN :
         Ran("split",
             [in_path |-> Path(IN_DIR, N_a), out_dir |-> NEW_DIR, minutes |-> minutes,
              rebase |-> rebase, start_at_zero |-> start_at_zero],
             cmd_split(fs, dirs, Path(IN_DIR, N_a), NEW_DIR, minutes, rebase,
                       start_at_zero))
    /\ UNCHANGED <<pc, codec_vars>>

\* merge --parts-dir new, after the split
RoundMerge ==
    /\ pc = "round"
    /\ Len(results) = 1
    /\ \E listing \in Listings(Glob(fs, dirs, NEW_DIR, P_vtt)) :
         Ran("merge",
             [parts_dir |-> NEW_DIR, pattern |-> P_vtt, listing |-> listing,
              output_file |-> Path(OUT_DIR, N_merged)],
             cmd_merge(fs, dirs, NEW_DIR, Path(OUT_DIR, N_merged), P_vtt, listing))
    /\ UNCHANGED <<pc, codec_vars>>

RoundNext == RoundSplit \/ RoundMerge

SpecRound == RoundInit /\ [][RoundNext]_vars

----------------------------------------------------------------------------
(* Claims                                                                  *)

\* C1: for every millisecond value m >= 0, decoding the text that encoding m
\* produced gives back exactly m, also when the hour field has three digits.
C1_RoundTrip ==
    (pc = "codec" /\ ts_back # None /\ ts_ms >= 0) => ts_back = Ok(ts_ms)

\* C1 witness: a value of 100 hours or more has been encoded to a text with a
\* three-digit hour field and decoded back.
C1_Witness ==
    /\ pc = "codec"
    /\ ts_ms >= 100 * 3600000
    /\ ts_text # None
    /\ ts_back = Ok(ts_ms)

IsRewrite(entry) == entry.action \in {"SWAP_START_END", "NORMALIZE"}

HasAction(log, a) == \E k \in 1..Len(log) : log[k].action = a

\* C2: the fixer run on the lines an earlier fixer run returned logs no
\* SWAP_START_END and no NORMALIZE entry.
C2_FixerIdempotent ==
    \A i \in 1..Len(results) :
        (results[i].cmd = "fix_vtt_timestamps" /\ results[i].status = "ok")
            => \A k \in 1..Len(results[i].out.fix_log) :
                   ~IsRewrite(results[i].out.fix_log[k])

\* C2 witness: the first run swapped one line, normalised another and skipped
\* a third, and the second run over its output has completed.
C2_Witness ==
    \E i \in 1..Len(results) :
        /\ results[i].cmd = "fix_vtt_timestamps"
        /\ results[i].status = "ok"
        /\ LET first == results[results[i].args.of]
           IN  /\ first.cmd = "clean"
               /\ HasAction(first.out.fix_log, "SWAP_START_END")
               /\ HasAction(first.out.fix_log, "NORMALIZE")
               /\ HasAction(first.out.fix_log, "SKIP_UNPARSEABLE")

Last == results[Len(results)]

\* The messages of the errors that decoding a timestamp line can raise
TimestampErrors ==
    {"empty timestamp", "bad timestamp structure", "invalid literal for int()",
     "list index out of range"}

\* C3: in check, fix, split, merge and compress a timestamp line whose start
\* or end cannot be decoded is skipped or passed through, and the command does
\* not end with the error that decoding it raised.
C3_DecodeFailureIsLocal ==
    \A i \in 1..Len(results) : results[i].msg \notin TimestampErrors

\* The cues the Cue Parser finds in the lines of a file
CuesIn(content) == iter_cues(read_text_lines(content))

EndNotBeforeStart(content) ==
    CuesIn(content).ok =>
        \A k \in 1..Len(CuesIn(content).val) :
            CuesIn(content).val[k].end_ms >= CuesIn(content).val[k].start_ms

\* C4: every cue of the file that a fixer pass or a compressor pass has just
\* written has end_ms >= start_ms, also when an input cue ended before it
\* started.
C4_EndNotBeforeStart ==
    (Len(results) > 0 /\ Last.status = "ok") =>
        /\ (Last.cmd = "clean" /\ Last.args.fix) => EndNotBeforeStart(fs[Last.out.out_path])
        /\ Last.cmd = "compress" => EndNotBeforeStart(fs[Last.out.out_file])

\* The files a run of split, merge or compress wrote
WrittenBy(r) ==
    IF r.cmd = "split" THEN {r.out.parts[k].path : k \in 1..Len(r.out.parts)}
    ELSE IF r.cmd = "merge" THEN {r.out.output_file}
    ELSE IF r.cmd = "compress" THEN {r.out.out_file}
    ELSE {}

FirstLineIsSignature(content) ==
    read_text_lines(content) # <<>> /\ IsSignature(read_text_lines(content)[1])

\* C5: every file that split, merge or compress has just written begins with
\* the WEBVTT signature line, also when the source document had none.
C5_WrittenWithSignature ==
    (Len(results) > 0 /\ Last.status = "ok") =>
        \A p \in WrittenBy(Last) : FirstLineIsSignature(fs[p])

\* The run r finds nothing to work on in the files it starts from: a document
\* without a parsed cue for split and compress, no matching file for merge
NothingToDo(r, files, ds) ==
    \/ /\ r.cmd = "split"
       /\ Exists(files, r.args.in_path)
       /\ iter_cues(split_header_and_body(read_text_lines(files[r.args.in_path])).body)
              = Ok(<<>>)
    \/ /\ r.cmd = "compress"
       /\ Exists(files, r.args.in_path)
       /\ CompressParse(SplitOn(NormalizeNewlines(DecodeUtf8Sig(files[r.args.in_path])),
                                NL)) = Ok(<<>>)
    \/ /\ r.cmd = "merge"
       /\ Glob(files, ds, r.args.parts_dir, r.args.pattern) = {}

ExpectedFailure(r) ==
    \/ r.cmd = "split" /\ r.status = "ValueError" /\ r.msg = NO_CUES_FOUND.msg
    \/ r.cmd = "compress" /\ r.status = "ValueError" /\ r.msg = NO_CUES_PARSED.msg
    \/ r.cmd = "merge" /\ r.status = "FileNotFoundError" /\ r.msg = NO_VTT_FILES.msg

C6_Step ==
    (Len(results') = Len(results) + 1 /\ NothingToDo(results'[Len(results')], fs, dirs))
        => /\ ExpectedFailure(results'[Len(results')])
           /\ fs' = fs
           /\ dirs' = dirs

\* C6: a split or compress of a document with zero cues, and a merge whose
\* pattern matches no file, end with an error and leave every file and every
\* directory as it was: nothing is written and no directory is made.
C6_NothingWritten == [][C6_Step]_vars

\* A split into a directory that does not exist failed for want of cues and
\* the directory still does not exist; then a merge found no file.
C6_Witness ==
    /\ pc = "tools"
    /\ Len(results) = 2
    /\ results[1].cmd = "split" /\ results[1].args.out_dir = NEW_DIR
    /\ results[1].msg = NO_CUES_FOUND.msg
    /\ results[2].cmd \in {"merge", "compress"}
    /\ results[2].msg \in {NO_VTT_FILES.msg, NO_CUES_PARSED.msg}
    /\ NEW_DIR \notin dirs
    /\ DOMAIN fs = {Path(IN_DIR, N_a)}

EndsWith(s, tail) ==
    Len(s) >= Len(tail) /\ SubSeq(s, Len(s) - Len(tail) + 1, Len(s)) = tail

\* The name of an intermediate file of a composite command
IsArtifact(name) ==
    \/ EndsWith(stem(name), S_fixed)
    \/ EndsWith(stem(name), S_compressed)
    \/ EndsWith(name, S_tmp_merged)

\* C7: when a composite command (cleansplit, mergecompress,
\* cleancompresssplit) has ended, in success or in the failure of a sub-step,
\* no intermediate file (_fixed, _compressed, _tmp_merged) is left.
C7_NoArtifactLeft ==
    (pc = "combo" /\ results # <<>>) => \A p \in DOMAIN fs : ~IsArtifact(p.name)

\* The start of the first cue the Cue Parser finds in a document, if any
FirstParsedCue(content) ==
    LET cs == iter_cues(split_header_and_body(read_text_lines(content)).body)
    IN  IF cs.ok /\ cs.val # <<>> THEN WideOf(cs.val[1].start_ms)
        ELSE NO_CUE_START

\* The key the documents are to be ordered by
ParsedKey(files, name) ==
    [t0 |-> FirstParsedCue(files[Path(PARTS_DIR, name)]),
     pn |-> part_number_from_name(name), lname |-> Lower(name)]

\* C8: the merger concatenates the documents in ascending order of (start of
\* the first parsed cue, part number, lowercased name), whatever the order of
\* enumeration; a document without a parsable cue comes after every document
\* that has one.
C8_MergeOrder ==
    (pc = "merge" /\ results # <<>> /\ Last.status = "ok") =>
        \A i, j \in 1..Len(Last.out.order) :
            i < j => ~KeyLess(ParsedKey(fs, Last.out.order[j]),
                              ParsedKey(fs, Last.out.order[i]))

\* The starts of the cues of the document a split was run on
SplitStarts(r) ==
    StartsOf(iter_cues(split_header_and_body(read_text_lines(fs[r.args.in_path])).body).val)

SeqMin(q) == CHOOSE x \in {q[i] : i \in 1..Len(q)} : \A i \in 1..Len(q) : x <= q[i]

\* The largest multiple of chunk that does not exceed x
FloorMultiple(x, chunk) == x - (x % chunk)

BaseOf(r) ==
    IF r.args.start_at_zero THEN 0
    ELSE FloorMultiple(SeqMin(SplitStarts(r)), r.args.minutes * 60000)

\* max(0, floor((start - base) / chunk))
BucketOf(start, base, chunk) ==
    IF start < base THEN 0 ELSE FloorMultiple(start - base, chunk) \div chunk

\* The starts, in document order, of the cues that belong to bucket k
StartsInBucket(r, k) ==
    LET InK(start) == BucketOf(start, BaseOf(r), r.args.minutes * 60000) = k
    IN  SelectSeq(SplitStarts(r), InK)

\* C9: the chunker puts every cue in the bucket max(0, floor((start - base) /
\* chunk)), base being 0 when zero-aligned and else the largest multiple of the
\* chunk length not above the least start; it writes the non-empty buckets
\* only, in index order, bucket k as part k + 1.
C9_Buckets ==
    (pc = "split" /\ results # <<>> /\ Last.status = "ok") =>
        /\ \A n \in 1..Len(Last.out.parts) :
              /\ Last.out.parts[n].starts # <<>>
              /\ Last.out.parts[n].starts = StartsInBucket(Last, Last.out.parts[n].idx - 1)
              /\ Last.out.parts[n].path.name
                     = stem(N_a) \o S_part \o NatToDigits(Last.out.parts[n].idx) \o S_vtt
              /\ (~Last.args.rebase /\ FirstLineIsSignature(fs[Last.args.in_path]))
                     => StartsOf(CuesIn(fs[Last.out.parts[n].path]).val)
                            = Last.out.parts[n].starts
        /\ \A n, m \in 1..Len(Last.out.parts) :
              n < m => Last.out.parts[n].idx < Last.out.parts[m].idx
        /\ \A i \in 1..Len(SplitStarts(Last)) :
              \E n \in 1..Len(Last.out.parts) :
                 Last.out.parts[n].idx - 1
                     = BucketOf(SplitStarts(Last)[i], BaseOf(Last), Last.args.minutes * 60000)
        /\ DOMAIN fs = {Last.args.in_path}
                           \cup {Last.out.parts[n].path : n \in 1..Len(Last.out.parts)}

\* Starts 0, 599999, 600000 and 1199999 split zero-aligned in chunks of ten
\* minutes: parts 1 and 2, of two cues each
C9_Witness ==
    /\ pc = "split" /\ results # <<>> /\ Last.status = "ok"
    /\ Last.args.minutes = 10 /\ Last.args.start_at_zero
    /\ SplitStarts(Last) = <<0, 599999, 600000, 1199999>>
    /\ Len(Last.out.parts) = 2
    /\ Last.out.parts[1].idx = 1 /\ Last.out.parts[1].starts = <<0, 599999>>
    /\ Last.out.parts[2].idx = 2 /\ Last.out.parts[2].starts = <<600000, 1199999>>

\* The fused text in prospect: the cleaned concatenation of the accumulator's
\* text, a space and the next text
Prospect(acc, nxt) == clean_text(acc.txt \o <<SP>> \o nxt.txt)

\* The rule of fusion. The length held against max_chars is that of the
\* cleaned text in prospect (cleaned = TRUE), or the length of the
\* accumulator's text, plus one, plus the length of the next text.
MayFuse(acc, nxt, gap_ms, max_chars, cleaned) ==
    /\ nxt.start_ms - acc.end_ms <= gap_ms
    /\ clean_text(acc.txt) # <<>>
    /\ clean_text(acc.txt)[Len(clean_text(acc.txt))] \notin PUNCT_END
    /\ IF cleaned THEN Len(Prospect(acc, nxt)) <= max_chars
       ELSE Len(acc.txt) + 1 + Len(nxt.txt) <= max_chars

RECURSIVE FoldByRule(_, _, _, _, _, _, _)
\* The finished cues of the fold from left to right over cues[i..], acc being
\* the accumulator
FoldByRule(cues, i, acc, gap_ms, max_chars, cleaned, finished) ==
    IF i > Len(cues) THEN Append(finished, acc)
    ELSE IF MayFuse(acc, cues[i], gap_ms, max_chars, cleaned)
    THEN FoldByRule(cues, i + 1,
                    [start_ms |-> acc.start_ms,
                     end_ms |-> Max(acc.end_ms, cues[i].end_ms),
                     txt |-> Prospect(acc, cues[i])],
                    gap_ms, max_chars, cleaned, finished)
    ELSE FoldByRule(cues, i + 1,
                    [start_ms |-> cues[i].start_ms, end_ms |-> cues[i].end_ms,
                     txt |-> cues[i].txt],
                    gap_ms, max_chars, cleaned, Append(finished, acc))

\* The cues a compress run wrote are the finished cues of the fold by the rule
\* over the cues sorted by (start, end)
WroteFoldByRule(r, cleaned) ==
    LET cues == r.out.cues
        want == FoldByRule(cues, 2,
                           [start_ms |-> cues[1].start_ms, end_ms |-> cues[1].end_ms,
                            txt |-> cues[1].txt],
                           r.args.gap_ms, r.args.max_chars, cleaned, <<>>)
    IN  /\ \A i, j \in 1..Len(cues) : i < j => ~CueLess(cues[j], cues[i])
        /\ Len(r.out.merged) = Len(want)
        /\ \A k \in 1..Len(want) :
              /\ r.out.merged[k].txt = want[k].txt
              /\ r.out.merged[k].start_ts = ms_to_vtt(want[k].start_ms)
              /\ r.out.merged[k].end_ts = ms_to_vtt(want[k].end_ms)

\* C10 as stated: the compressor fuses the next cue into the accumulator if
\* and only if the gap is within the threshold, the accumulator's cleaned text
\* is non-empty and does not end a sentence, and the cleaned concatenation of
\* the accumulator's text, a space and the next text is no longer than
\* max_chars; otherwise it flushes the accumulator and starts from the next cue.
C10_FuseRuleAsStated ==
    (pc = "compress" /\ results # <<>> /\ Last.status = "ok")
        => WroteFoldByRule(Last, TRUE)

\* C10 amended: as stated, but the length that must not exceed max_chars is
\* the length of the accumulator's text, plus one for the space, plus the
\* length of the next cue's cleaned text.
C10_FuseRule ==
    (pc = "compress" /\ results # <<>> /\ Last.status = "ok")
        => WroteFoldByRule(Last, FALSE)

\* "Hello", "world." 100 ms later and a third cue at gap 0, threshold 500 ms:
\* two cues are written, "Hello world." and the third cue's text
C10_Witness ==
    /\ pc = "compress" /\ results # <<>> /\ Last.status = "ok"
    /\ Last.args.gap_ms = 500
    /\ Len(Last.out.cues) = 3
    /\ Last.out.cues[1].txt = <<"H", "e", "l", "l", "o">>
    /\ Last.out.cues[2].start_ms - Last.out.cues[1].end_ms = 100
    /\ Last.out.cues[3].start_ms = Last.out.cues[2].end_ms
    /\ Len(Last.out.merged) = 2
    /\ Last.out.merged[1].txt
           = <<"H", "e", "l", "l", "o", " ", "w", "o", "r", "l", "d", ".">>
    /\ Last.out.merged[2].txt = Last.out.cues[3].txt

\* The runs of the fixer that returned: clean --fix and fix_vtt_timestamps
IsFixerRun(r) ==
    /\ r.status = "ok"
    /\ r.cmd = "fix_vtt_timestamps" \/ (r.cmd = "clean" /\ r.args.fix)

\* The lines a run of the fixer was given
FixerInput(r) ==
    IF r.cmd = "clean" THEN read_text_lines(fs[r.args.in_path])
    ELSE results[r.args.of].out.fixed_lines

\* The two sides of a line of the timestamp grammar, decoded
SidesOf(line) ==
    LET m == TS_LINE_RE_match(line)
        tok == IF m.matched THEN FirstToken(Strip(m.g2)) ELSE NoMatch
    IN  IF ~m.matched THEN [matched |-> FALSE, decoded |-> FALSE]
        ELSE IF ~tok.ok THEN [matched |-> TRUE, decoded |-> FALSE]
        ELSE LET s == parse_ts_to_ms(Strip(m.g1))
                 e == parse_ts_to_ms(tok.val)
             IN  IF s.ok /\ e.ok
                 THEN [matched |-> TRUE, decoded |-> TRUE, s_ms |-> s.val, e_ms |-> e.val]
                 ELSE [matched |-> TRUE, decoded |-> FALSE]

\* What follows the end timestamp of a timestamp line: the text after the
\* first token after the first arrow, without the white space that ends the line
SettingsOf(line) ==
    LET k == CHOOSE i \in 1..(Len(line) - 2) :
                 /\ SubSeq(line, i, i + 2) = <<"-", "-", ">">>
                 /\ \A j \in 1..(i - 1) : SubSeq(line, j, j + 2) # <<"-", "-", ">">>
        R == LStrip(SubSeq(line, k + 3, Len(line)))
    IN  RStrip(SubSeq(R, LeadingToken(R) + 1, Len(R)))

\* The entries of the log for line number n
EntriesFor(log, n) == SelectSeq(log, LAMBDA entry : entry.line_no = n)

SwappedAsClaimed(r, n) ==
    LET line == FixerInput(r)[n]
        sd == SidesOf(line)
    IN  (sd.decoded /\ sd.e_ms < sd.s_ms) =>
            /\ r.out.fixed_lines[n]
                   = ms_to_vtt(sd.e_ms) \o ARROW \o ms_to_vtt(sd.s_ms)
                         \o SettingsOf(line) \o <<NL>>
            /\ Len(EntriesFor(r.out.fix_log, n)) = 1
            /\ EntriesFor(r.out.fix_log, n)[1].action = "SWAP_START_END"

\* C11: for every timestamp line whose two sides decode and whose end is less
\* than its start the fixer writes encode(end) --> encode(start) followed by
\* the settings of the line unchanged, and logs exactly one SWAP_START_END
\* entry with the number of that line.
C11_SwapKeepsSettings ==
    \A i \in 1..Len(results) :
        IsFixerRun(results[i]) =>
            /\ Len(results[i].out.fixed_lines) = Len(FixerInput(results[i]))
            /\ \A n \in 1..Len(FixerInput(results[i])) :
                   SwappedAsClaimed(results[i], n)

L_align_fixed ==
    <<"0", "0", ":", "0", "2", ":", "0", "0", ".", "0", "0", "0", " ", "-",
      "-", ">", " ", "0", "0", ":", "0", "5", ":", "0", "0", ".", "0", "0",
      "0", " ", "a", "l", "i", "g", "n", ":", "s", "t", "a", "r", "t", "\n">>

\* C11 witness: "05:00.000 --> 02:00.000 align:start" on line 2 was written as
\* "00:02:00.000 --> 00:05:00.000 align:start" and logged as swapped.
C11_Witness ==
    /\ pc = "fix" /\ results # <<>> /\ IsFixerRun(results[1])
    /\ Len(FixerInput(results[1])) >= 2
    /\ FixerInput(results[1])[2] = L_align
    /\ results[1].out.fixed_lines[2] = L_align_fixed
    /\ \E k \in 1..Len(results[1].out.fix_log) :
          /\ results[1].out.fix_log[k].line_no = 2
          /\ results[1].out.fix_log[k].action = "SWAP_START_END"

\* The numbers of the lines whose two sides decode
Decodable(lines) == {n \in 1..Len(lines) : SidesOf(lines[n]).decoded}

\* The number of the last decodable line before line n, or 0
PrevDecodable(lines, n) ==
    LET before == {j \in Decodable(lines) : j < n}
    IN  IF before = {} THEN 0 ELSE CHOOSE j \in before : \A k \in before : k <= j

CountIssues(issues, n, kind) ==
    Len(SelectSeq(issues, LAMBDA x : x.line_no = n /\ x.kind = kind))

TimelineAsClaimed(lines, issues) ==
    \A n \in 1..Len(lines) :
        LET p == PrevDecodable(lines, n)
            has == n \in Decodable(lines) /\ p > 0
        IN  /\ CountIssues(issues, n, "START_DECREASED")
                   = IF has /\ SidesOf(lines[n]).s_ms < SidesOf(lines[p]).s_ms
                     THEN 1 ELSE 0
            /\ CountIssues(issues, n, "OVERLAP")
                   = IF has /\ SidesOf(lines[n]).s_ms < SidesOf(lines[p]).e_ms
                     THEN 1 ELSE 0

IsCheckRun(r) == r.cmd = "clean" /\ ~r.args.fix

C12_Step ==
    (Len(results') = Len(results) + 1 /\ IsCheckRun(results'[Len(results')])) =>
        /\ fs' = fs
        /\ dirs' = dirs
        /\ results'[Len(results')].status = "ok" =>
              TimelineAsClaimed(read_text_lines(fs[results'[Len(results')].args.in_path]),
                                results'[Len(results')].out.issues)

\* C12: a run of the checker leaves every file as it was, and it reports
\* START_DECREASED at a decodable timestamp line exactly when its start is less
\* than the start of the last decodable line before it, OVERLAP exactly when
\* its start is less than the end of that line; lines that do not decode are
\* never the line before.
C12_CheckerTimeline == [][C12_Step]_vars

\* C12 witness: the starts 0, 5000, 3000 were checked and the one
\* START_DECREASED issue reported is at line 3.
C12_Witness ==
    /\ pc = "check" /\ results # <<>> /\ Last.status = "ok"
    /\ fs[Path(IN_DIR, N_a)] = T_0 \o T_5 \o T_3
    /\ CountIssues(Last.out.issues, 3, "START_DECREASED") = 1
    /\ \A k \in 1..Len(Last.out.issues) :
          Last.out.issues[k].kind = "START_DECREASED" => Last.out.issues[k].line_no = 3

\* The colon-separated segments of a timestamp text, a comma read as a period
SegmentsOf(text) == SplitOn(ReplaceChar(Strip(text), ",", "."), ":")

IsNumber(seg) == seg # <<>> /\ \A i \in 1..Len(seg) : IsDigit(seg[i])

\* The index of the first period of a segment, or a position past its end
FirstPeriod(seg) ==
    IF \A i \in 1..Len(seg) : seg[i] # "." THEN Len(seg) + 1
    ELSE CHOOSE i \in 1..Len(seg) : seg[i] = "." /\ \A j \in 1..(i - 1) : seg[j] # "."

\* The seconds segment up to its first period
WholeOf(seg) == SubSeq(seg, 1, FirstPeriod(seg) - 1)

\* The digits after the first period of the seconds segment, padded on the
\* right with zeros or cut to three digits; 0 when there are none
FractionOf(seg) ==
    LET d == DigitsOnly(SubSeq(seg, FirstPeriod(seg) + 1, Len(seg)))
    IN  IF Len(d) >= 3 THEN DigitsToNat(SubSeq(d, 1, 3))
        ELSE DigitsToNat(d) * Pow(10, 3 - Len(d))

\* A text of two or three segments whose hours, minutes and whole seconds are
\* numbers
IsColonTimestamp(text) ==
    /\ Len(SegmentsOf(text)) \in {2, 3}
    /\ \A k \in 1..(Len(SegmentsOf(text)) - 1) : IsNumber(SegmentsOf(text)[k])
    /\ IsNumber(WholeOf(SegmentsOf(text)[Len(SegmentsOf(text))]))

ClaimedMs(text) ==
    LET segs == SegmentsOf(text)
        n == Len(segs)
        hours == IF n = 3 THEN DigitsToNat(segs[1]) ELSE 0
        minutes == DigitsToNat(segs[n - 1])
        seconds == DigitsToNat(WholeOf(segs[n]))
    IN  (hours * 3600 + minutes * 60 + seconds) * 1000 + FractionOf(segs[n])

T_dirty == <<"5", "5", ":", "5", "6", ".", "0", "3", ".", "8", "0", "0">>

T_comma == <<"1", ":", "0", "2", ":", "0", "3", ",", "5", "0", "0">>

\* C13: a colon-delimited timestamp of two or three segments decodes to
\* (hours * 3600 + minutes * 60 + seconds) * 1000 + fraction, hours being 0
\* for two segments, a comma being read as a period, and the fraction being
\* the digits after the first period of the seconds segment as three digits;
\* "55:56.03.800" decodes to (55 * 60 + 56) * 1000 + 38 and "1:02:03,500" to
\* 3723500.
C13_ColonDecode ==
    (pc = "decode" /\ ts_back # None) =>
        /\ IsColonTimestamp(ts_text) => ts_back = Ok(ClaimedMs(ts_text))
        /\ ts_text = T_dirty => ts_back = Ok((55 * 60 + 56) * 1000 + 38)
        /\ ts_text = T_comma => ts_back = Ok(3723500)

\* C13 witness: "55:56.03.800" has been decoded to 3356038.
C13_Witness ==
    /\ pc = "decode"
    /\ ts_text = T_dirty
    /\ ts_back = Ok(3356038)

\* Digits with an optional fractional part, a period or a comma before it
IsPureSecondsText(text) ==
    LET t == Strip(text)
        seps == {i \in 1..Len(t) : t[i] \in {".", ","}}
    IN  /\ t # <<>>
        /\ \A i \in 1..Len(t) : IsDigit(t[i]) \/ i \in seps
        /\ Cardinality(seps) <= 1
        /\ 1 \notin seps /\ Len(t) \notin seps

\* The number of digits after the separator
FractionDigits(text) ==
    LET t == Strip(text)
    IN  IF \A i \in 1..Len(t) : IsDigit(t[i]) THEN 0
        ELSE Len(t) - (CHOOSE i \in 1..Len(t) : ~IsDigit(t[i]))

\* q is value * 1000 rounded to the nearest integer, value being the number
\* the text denotes (either neighbour when value * 1000 lies half way)
IsRounded(q, text) ==
    LET num == DigitsToNat(DigitsOnly(text)) * 1000
        den == Pow(10, FractionDigits(text))
        diff == IF num >= q * den THEN num - q * den ELSE q * den - num
    IN  2 * diff <= den

\* C14: a timestamp of pure numeric seconds decodes to its value times 1000
\* rounded to the nearest integer millisecond.
C14_PureSecondsRounded ==
    (pc = "decode" /\ ts_back # None /\ IsPureSecondsText(ts_text)) =>
        ts_back.ok /\ IsRounded(ts_back.val, ts_text)

\* The written cue is a cue of the input, written as it was read
IsInputCue(r, w) ==
    \E i \in 1..Len(r.out.cues) :
        /\ r.out.cues[i].txt = w.txt
        /\ r.out.cues[i].start_ts = w.start_ts
        /\ r.out.cues[i].end_ts = w.end_ts

\* C15 as stated: every cue the compressor writes has a cleaned text no
\* longer than max_chars.
C15_WithinBudgetAsStated ==
    (pc = "compress" /\ results # <<>> /\ Last.status = "ok") =>
        \A k \in 1..Len(Last.out.merged) :
            Len(clean_text(Last.out.merged[k].txt)) <= Last.args.max_chars

\* C15 amended: every cue the compressor writes has a cleaned text no longer
\* than max_chars, unless it is a cue of the input written as it was read (a
\* cue that no other cue was fused into).
C15_FusedWithinBudget ==
    (pc = "compress" /\ results # <<>> /\ Last.status = "ok") =>
        \A k \in 1..Len(Last.out.merged) :
            \/ Len(clean_text(Last.out.merged[k].txt)) <= Last.args.max_chars
            \/ IsInputCue(Last, Last.out.merged[k])

\* C15 witness: with a budget of 5 characters "Hi" and "Hi" were fused to
\* "Hi Hi" and the third cue, of 8 characters, was written as it was.
C15_Witness ==
    /\ pc = "compress" /\ results # <<>> /\ Last.status = "ok"
    /\ Last.args.max_chars = 5
    /\ Len(Last.out.cues) = 3
    /\ Len(Last.out.merged) = 2
    /\ Last.out.merged[1].txt = <<"H", "i", " ", "H", "i">>
    /\ Len(Last.out.merged[2].txt) = 8

\* The lines from the first non-blank line on
FromFirstNonBlank(lines) ==
    LET nonblank == {i \in 1..Len(lines) : ~IsBlank(lines[i])}
    IN  IF nonblank = {} THEN <<>>
        ELSE SubSeq(lines, CHOOSE i \in nonblank : \A j \in nonblank : i <= j, Len(lines))

\* C16: for the document a split was run on, when its first non-blank line
\* does not start with the WEBVTT signature the document splitter returns an
\* empty header and, as body, every line from that first non-blank line on.
C16_NoSignatureEmptyHeader ==
    (pc = "split" /\ results # <<>>) =>
        LET lines == read_text_lines(fs[Last.args.in_path])
            rest == FromFirstNonBlank(lines)
        IN  (rest # <<>> /\ ~IsSignature(rest[1])) =>
                /\ split_header_and_body(lines).header = <<>>
                /\ split_header_and_body(lines).body = rest

\* The calls of the fixer, returned or not
IsFixerCall(r) == r.cmd = "fix_vtt_timestamps" \/ (r.cmd = "clean" /\ r.args.fix)

PassedThrough(r, n) ==
    LET line == FixerInput(r)[n]
        sd == SidesOf(line)
    IN  /\ ~sd.matched =>
              /\ r.out.fixed_lines[n] = line
              /\ EntriesFor(r.out.fix_log, n) = <<>>
        /\ (sd.matched /\ ~sd.decoded) =>
              /\ r.out.fixed_lines[n] = line
              /\ Len(EntriesFor(r.out.fix_log, n)) = 1
              /\ EntriesFor(r.out.fix_log, n)[1].action = "SKIP_UNPARSEABLE"

\* C17: the fixer returns one line for every line it was given, in the same
\* order; a line that does not match the timestamp grammar is returned as it
\* was, with no log entry, and a matching line of which the start or the end
\* does not decode is returned as it was, with exactly one SKIP_UNPARSEABLE
\* entry carrying its number.
C17_PassThrough ==
    \A i \in 1..Len(results) :
        IsFixerCall(results[i]) =>
            /\ results[i].status = "ok"
            /\ Len(results[i].out.fixed_lines) = Len(FixerInput(results[i]))
            /\ \A n \in 1..Len(FixerInput(results[i])) : PassedThrough(results[i], n)

\* The number of lines in the unbroken run of non-blank lines from line i on
RECURSIVE NonBlankRun(_, _)
NonBlankRun(lines, i) ==
    IF i > Len(lines) \/ IsBlank(lines[i]) THEN 0 ELSE 1 + NonBlankRun(lines, i + 1)

\* The first line from line i on that is not blank, or the line past the end
RECURSIVE SkipBlank(_, _)
SkipBlank(lines, i) ==
    IF i > Len(lines) \/ ~IsBlank(lines[i]) THEN i ELSE SkipBlank(lines, i + 1)

RECURSIVE ScanAsClaimed(_, _)
\* The cues of the scan from line i on: a line that does not match, or of
\* which a side does not decode, is passed over; a line whose sides decode
\* gives a cue with the non-blank lines after it as its text
ScanAsClaimed(lines, i) ==
    IF i > Len(lines) THEN <<>>
    ELSE IF ~SidesOf(lines[i]).decoded THEN ScanAsClaimed(lines, i + 1)
    ELSE <<[start_ms |-> SidesOf(lines[i]).s_ms,
            end_ms |-> SidesOf(lines[i]).e_ms,
            text_lines |-> RStripNLAll(SubSeq(lines, i + 1, i + NonBlankRun(lines, i + 1))),
            ts_line |-> RStripNL(lines[i])]>>
         \o ScanAsClaimed(lines, SkipBlank(lines, i + 1 + NonBlankRun(lines, i + 1)))

\* The body lines of the document a split was run on
SplitBody(r) == split_header_and_body(read_text_lines(fs[r.args.in_path])).body

\* C18: the cue parser passes over the lines that do not match the timestamp
\* grammar and the matching lines of which a side does not decode, and at a
\* matching line whose sides decode it gives one cue with the unbroken run of
\* non-blank lines after it as text and goes on after the blank lines that
\* follow; the cues are in the order of the document and the scan ends.
C18_CueScan ==
    (pc = "tools" /\ results # <<>> /\ Last.cmd = "split"
        /\ Exists(fs, Last.args.in_path)) =>
        iter_cues(SplitBody(Last)) = Ok(ScanAsClaimed(SplitBody(Last), 1))

\* The cues of the document a split was run on, and the header it was given
SplitCuesOf(r) == iter_cues(SplitBody(r)).val

SplitHeaderOf(r) ==
    IF split_header_and_body(read_text_lines(fs[r.args.in_path])).header = <<>>
    THEN DEFAULT_HEADER
    ELSE split_header_and_body(read_text_lines(fs[r.args.in_path])).header

\* The timestamp line of cue c in the bucket that starts at chunk_start: a
\* line that is not rebased is the line of the document as it was, without
\* its line terminator
ClaimedTimestampLine(c, rebase, chunk_start) ==
    IF rebase
    THEN ms_to_vtt(c.start_ms - chunk_start) \o ARROW \o ms_to_vtt(c.end_ms - chunk_start)
    ELSE c.ts_line

RECURSIVE ClaimedBlocks(_, _, _, _)
\* The text of the blocks of cues[i..]: timestamp line, text lines, blank line
ClaimedBlocks(cues, i, rebase, chunk_start) ==
    IF i > Len(cues) THEN <<>>
    ELSE ClaimedTimestampLine(cues[i], rebase, chunk_start) \o <<NL>>
             \o Concat(AddNL(cues[i].text_lines)) \o <<NL>>
             \o ClaimedBlocks(cues, i + 1, rebase, chunk_start)

\* The content of the part written for the bucket of 0-based index k
ClaimedPart(r, k) ==
    LET chunk == r.args.minutes * 60000
        InK(c) == BucketOf(c.start_ms, BaseOf(r), chunk) = k
    IN  Concat(SplitHeaderOf(r))
            \o ClaimedBlocks(SelectSeq(SplitCuesOf(r), InK), 1, r.args.rebase,
                             BaseOf(r) + k * chunk)

PartsAsClaimed(r) ==
    \A n \in 1..Len(r.out.parts) :
        fs[r.out.parts[n].path] = ClaimedPart(r, r.out.parts[n].idx - 1)

\* C19: with rebase the chunker writes for every cue of the bucket of 0-based
\* index k the line encode(start - chunk_start) --> encode(end - chunk_start),
\* chunk_start being base + k * chunk; without rebase it writes the timestamp
\* line of the cue verbatim.
C19_Rebase ==
    (pc = "split" /\ results # <<>> /\ Last.status = "ok") => PartsAsClaimed(Last)

\* The lines without their line terminators
ContentLines(lines) == RStripNLAll(lines)

\* The lines without the blank lines at the end, and without those at both ends
TrimEnd(lines) ==
    LET nonblank == {i \in 1..Len(lines) : ~IsBlank(lines[i])}
    IN  IF nonblank = {} THEN <<>>
        ELSE SubSeq(lines, 1, CHOOSE i \in nonblank : \A j \in nonblank : j <= i)

StripBlankLines(lines) == TrimEnd(FromFirstNonBlank(lines))

\* The bodies in order, with exactly one blank line between one and the next
RECURSIVE JoinBodies(_, _)
JoinBodies(bodies, i) ==
    IF i > Len(bodies) THEN <<>>
    ELSE bodies[i] \o (IF i < Len(bodies) THEN <<<<>>>> ELSE <<>>)
             \o JoinBodies(bodies, i + 1)

\* The stripped bodies of the merged documents, in the order of the merge,
\* those that are empty left out
MergedBodies(r) ==
    SelectSeq([i \in 1..Len(r.out.order) |->
                  ContentLines(StripBlankLines(
                      read_vtt_keep_header(fs[Path(PARTS_DIR, r.out.order[i])]).body))],
              LAMBDA b : b # <<>>)

ClaimedMerged(r) ==
    ContentLines(read_vtt_keep_header(fs[Path(PARTS_DIR, r.out.order[1])]).header)
        \o JoinBodies(MergedBodies(r), 1)

\* C20: the merged output is the header of the first document of the order,
\* once, and then the body lines of every document in order, without the
\* blank lines at their ends, with exactly one blank line between the last
\* body line of a document and the first body line of the next, also when the
\* last line of a document has no line terminator.
C20_MergedLayout ==
    (pc = "merge" /\ results # <<>> /\ Last.status = "ok") =>
        TrimEnd(ContentLines(read_text_lines(fs[Last.out.output_file])))
            = TrimEnd(ClaimedMerged(Last))

\* A separator character: neither a digit nor a letter
IsSeparator(c) == ~IsDigit(c) /\ ~IsLetter(c)

\* The number of separator characters at the start of s
LeadingSeparators(s) ==
    LET stops == {i \in 1..Len(s) : ~IsSeparator(s[i])}
    IN  IF stops = {} THEN Len(s) ELSE (CHOOSE i \in stops : \A j \in stops : i <= j) - 1

\* What follows the token "part" that starts at q, its separators left out
AfterToken(s, q) ==
    LET rest == SubSeq(s, q + 4, Len(s))
    IN  SubSeq(rest, LeadingSeparators(rest) + 1, Len(rest))

\* The token "part", in any case, starts at q and only separator characters
\* stand between it and a run of digits
TokenAt(s, q) ==
    /\ q + 3 <= Len(s)
    /\ Upper(SubSeq(s, q, q + 3)) = S_PART
    /\ q = 1 \/ ~IsLetter(s[q - 1])
    /\ AfterToken(s, q) # <<>>
    /\ IsDigit(AfterToken(s, q)[1])

TokenPlaces(s) == {q \in 1..Len(s) : TokenAt(s, q)}

FirstTokenPlace(s) == CHOOSE q \in TokenPlaces(s) : \A r \in TokenPlaces(s) : q <= r

ClaimedPartNumber(s) ==
    LET after == AfterToken(s, FirstTokenPlace(s))
    IN  DigitsToNat(SubSeq(after, 1, LeadingDigits(after)))

IsKeyed == pc = "key" /\ ts_back # None

\* C21: the part-number key of a file name is the integer of the first run of
\* digits that follows the token "part" (in any case) with only non-digit
\* separator characters, possibly none, in between, the first such place in
\* the name winning; a name without such a place gets the sentinel, and the
\* sentinel is larger than every part number read from a name.
C21_PartNumberKey ==
    IsKeyed =>
        IF TokenPlaces(stem(ts_text)) = {} THEN ts_back.val = NO_PART_NUMBER
        ELSE /\ ts_back.val = ClaimedPartNumber(stem(ts_text))
             /\ ts_back.val < NO_PART_NUMBER

\* The cues of a written part, as the toolkit reads a document
PartCues(part) == iter_cues(split_header_and_body(read_text_lines(fs[part.path])).body).val

\* What tells a cue of a part from another: its times and text lines, or, the
\* times of a rebased part being shifted, its text lines
CueId(c, rebase) ==
    IF rebase THEN [text_lines |-> c.text_lines]
    ELSE [start_ms |-> c.start_ms, end_ms |-> c.end_ms, text_lines |-> c.text_lines]

IdsOf(cues, rebase) == [i \in 1..Len(cues) |-> CueId(cues[i], rebase)]

RECURSIVE PartIdsFrom(_, _)
\* The cues of the parts from the n-th on, part after part
PartIdsFrom(r, n) ==
    IF n > Len(r.out.parts) THEN <<>>
    ELSE IdsOf(PartCues(r.out.parts[n]), r.args.rebase) \o PartIdsFrom(r, n + 1)

CountIn(x, q) == Cardinality({i \in 1..Len(q) : q[i] = x})

RECURSIVE IsSubsequence(_, _)
\* a is b with some members left out, the order kept
IsSubsequence(a, b) ==
    IF a = <<>> THEN TRUE
    ELSE IF b = <<>> THEN FALSE
    ELSE IF Head(a) = Head(b) THEN IsSubsequence(Tail(a), Tail(b))
    ELSE IsSubsequence(a, Tail(b))

IsSplitRun == pc = "split" /\ results # <<>> /\ Last.status = "ok"

\* C22: the written parts partition the parsed cues: the cues of all parts
\* together are as many as the parsed cues and hold each parsed cue as often
\* as the document does, the cues of a part are in document order, a part was
\* written from a bucket with the cues it holds, and of two parts the one
\* with the lower number holds only cues that start before every cue of the
\* other.
C22_Partition ==
    IsSplitRun =>
        LET ids == IdsOf(SplitCuesOf(Last), Last.args.rebase)
            parts == Last.out.parts
        IN  /\ Len(PartIdsFrom(Last, 1)) = Len(ids)
            /\ \A i \in 1..Len(ids) :
                  CountIn(ids[i], PartIdsFrom(Last, 1)) = CountIn(ids[i], ids)
            /\ \A n \in 1..Len(parts) :
                  /\ IsSubsequence(IdsOf(PartCues(parts[n]), Last.args.rebase), ids)
                  /\ Len(PartCues(parts[n])) = Len(parts[n].starts)
                  /\ ~Last.args.rebase => StartsOf(PartCues(parts[n])) = parts[n].starts
            /\ \A n, m \in 1..Len(parts) :
                  parts[n].idx < parts[m].idx =>
                      \A i \in 1..Len(parts[n].starts), j \in 1..Len(parts[m].starts) :
                          parts[n].starts[i] < parts[m].starts[j]

\* C22 witness: three cues split into part 1, which holds the first and the
\* third cue of the document, and a part with a number above 2, which holds
\* the second.
C22_Witness ==
    /\ IsSplitRun
    /\ Len(SplitCuesOf(Last)) = 3
    /\ Len(Last.out.parts) = 2
    /\ Last.out.parts[1].idx = 1
    /\ Last.out.parts[2].idx > 2
    /\ IdsOf(PartCues(Last.out.parts[1]), Last.args.rebase)
           = <<IdsOf(SplitCuesOf(Last), Last.args.rebase)[1],
               IdsOf(SplitCuesOf(Last), Last.args.rebase)[3]>>
    /\ IdsOf(PartCues(Last.out.parts[2]), Last.args.rebase)
           = <<IdsOf(SplitCuesOf(Last), Last.args.rebase)[2]>>

RECURSIVE JoinTexts(_, _, _)
\* The texts of cues[i..j] joined by single spaces, an empty text adding
\* nothing
JoinTexts(cues, i, j) ==
    IF i > j THEN <<>>
    ELSE IF JoinTexts(cues, i + 1, j) = <<>> THEN cues[i].txt
    ELSE IF cues[i].txt = <<>> THEN JoinTexts(cues, i + 1, j)
    ELSE cues[i].txt \o <<SP>> \o JoinTexts(cues, i + 1, j)

\* The ways to give each of n cues in order the number of one of m runs, the
\* numbers never falling and none left out
RunsOf(n, m) ==
    {g \in [1..n -> 1..m] :
        /\ g[1] = 1
        /\ g[n] = m
        /\ \A i \in 1..(n - 1) : g[i + 1] \in {g[i], g[i] + 1}}

FirstOfRun(g, k) == CHOOSE i \in DOMAIN g : g[i] = k /\ \A j \in DOMAIN g : g[j] = k => i <= j

LastOfRun(g, k) == CHOOSE i \in DOMAIN g : g[i] = k /\ \A j \in DOMAIN g : g[j] = k => j <= i

MaxEndOfRun(cues, g, k) ==
    CHOOSE e \in {cues[i].end_ms : i \in {j \in DOMAIN g : g[j] = k}} :
        \A i \in DOMAIN g : g[i] = k => cues[i].end_ms <= e

\* The written cues are the runs g of the sorted cues
WroteRuns(cues, merged, g) ==
    /\ \A k \in 1..Len(merged) :
          /\ merged[k].start_ts = ms_to_vtt(cues[FirstOfRun(g, k)].start_ms)
          /\ merged[k].end_ts = ms_to_vtt(MaxEndOfRun(cues, g, k))
          /\ merged[k].txt = JoinTexts(cues, FirstOfRun(g, k), LastOfRun(g, k))
    /\ \A k \in 1..(Len(merged) - 1) :
          cues[FirstOfRun(g, k)].start_ms <= cues[FirstOfRun(g, k + 1)].start_ms

IsCompressRun == pc = "compress" /\ results # <<>> /\ Last.status = "ok"

\* C23: the compressor conserves its input: the cues it writes are the
\* consecutive runs of a division of the cues sorted by (start, end), every
\* cue in one run and the last cue in the last; a written cue starts where the
\* first cue of its run starts, ends at the latest end of its run and has for
\* text the cleaned texts of its run joined in order by single spaces; the
\* written cues start in non-decreasing order.
C23_Conserves ==
    IsCompressRun =>
        /\ \A i, j \in 1..Len(Last.out.cues) :
              i < j => ~CueLess(Last.out.cues[j], Last.out.cues[i])
        /\ Len(Last.out.merged) <= Len(Last.out.cues)
        /\ \E g \in RunsOf(Len(Last.out.cues), Len(Last.out.merged)) :
              WroteRuns(Last.out.cues, Last.out.merged, g)

\* The cues of a document as the toolkit parses it: start, end and text lines
CueTriples(content) ==
    LET cues == iter_cues(split_header_and_body(read_text_lines(content)).body).val
    IN  [i \in 1..Len(cues) |->
            [start_ms |-> cues[i].start_ms, end_ms |-> cues[i].end_ms,
             text_lines |-> cues[i].text_lines]]

HasSignatureHeader(content) ==
    LET header == split_header_and_body(read_text_lines(content)).header
    IN  header # <<>> /\ IsSignature(header[1])

StartsNonDecreasing(cues) ==
    \A i \in 1..(Len(cues) - 1) : cues[i].start_ms <= cues[i + 1].start_ms

\* A split without rebase and the merge of its parts have both succeeded
IsRoundTrip ==
    /\ pc = "round"
    /\ Len(results) = 2
    /\ results[1].status = "ok"
    /\ ~results[1].args.rebase
    /\ results[2].status = "ok"

\* C24: for a document with a signature header whose cues start in
\* non-decreasing order, the document merged from the parts of a split without
\* rebase has the parsed cues of the original document: the same starts, ends
\* and text lines in the same order.
C24_SplitMergeLossless ==
    (/\ IsRoundTrip
     /\ HasSignatureHeader(fs[Path(IN_DIR, N_a)])
     /\ StartsNonDecreasing(CueTriples(fs[Path(IN_DIR, N_a)])))
        => CueTriples(fs[Path(OUT_DIR, N_merged)]) = CueTriples(fs[Path(IN_DIR, N_a)])

====
